---- MODULE Spec2Model ----
(***************************************************************************)
(* The get-project command of atlast: the fetch / decode / validate        *)
(* pipeline of src/scripts/get-project.ts (src/unnamed/part_000) and       *)
(* src/scripts/services/{client,project,progress,error}-service.ts.        *)
(*                                                                         *)
(* JavaScript values are modelled as records tagged by t:                  *)
(*   [t |-> "Error", cls, message, cause, errors]   an Error object        *)
(*   [t |-> "string", value]                        a string               *)
(*   [t |-> "undefined"]                            undefined              *)
(*   [t |-> "json", json]                           a plain JSON value     *)
(* An optional value (a cause, an fp-ts Option held in a variable) is a    *)
(* sequence of length 0 or 1.                                              *)
(***************************************************************************)
EXTENDS Integers, Sequences, FiniteSets, TLC

\* The longest role-summary list and board list the remote service returns.
MaxRoles == 2
MaxBoards == 2

(***************************************************************************)
(* Strings                                                                 *)
(***************************************************************************)
startsWith(s, p) == Len(s) >= Len(p) /\ SubSeq(s, 1, Len(p)) = p

endsWith(s, p) == Len(s) >= Len(p) /\ SubSeq(s, Len(s) - Len(p) + 1, Len(s)) = p

RECURSIVE join(_, _)
join(ss, sep) ==
    IF Len(ss) = 0 THEN ""
    ELSE IF Len(ss) = 1 THEN ss[1]
    ELSE ss[1] \o sep \o join(Tail(ss), sep)

filterSeq(xs, keep(_)) == SelectSeq(xs, keep)

map(xs, f(_)) == [i \in 1..Len(xs) |-> f(xs[i])]

some(xs, p(_)) == \E i \in 1..Len(xs) : p(xs[i])

includes(xs, x) == \E i \in 1..Len(xs) : xs[i] = x

(***************************************************************************)
(* fp-ts Either and Option                                                 *)
(***************************************************************************)
left(e) == [tag |-> "Left", left |-> e]
right(a) == [tag |-> "Right", right |-> a]
isLeft(x) == x.tag = "Left"
isRight(x) == x.tag = "Right"

chain(fa, f(_)) == IF isLeft(fa) THEN fa ELSE f(fa.right)
mapRight(fa, f(_)) == IF isLeft(fa) THEN fa ELSE right(f(fa.right))
mapLeft(fa, f(_)) == IF isLeft(fa) THEN left(f(fa.left)) ELSE fa
fold(fa, onLeft(_), onRight(_)) == IF isLeft(fa) THEN onLeft(fa.left) ELSE onRight(fa.right)

none == [tag |-> "None"]
someOf(a) == [tag |-> "Some", value |-> a]

(***************************************************************************)
(* JavaScript values                                                       *)
(***************************************************************************)
ErrorObj(cls, message, cause) ==
    [t |-> "Error", cls |-> cls, message |-> message, cause |-> cause, errors |-> <<>>]

NewError(message, options) == ErrorObj("Error", message, options.cause)

AggregateError(errors, message) ==
    [t |-> "Error", cls |-> "AggregateError", message |-> message, cause |-> <<>>,
     errors |-> errors]

StringVal(s) == [t |-> "string", value |-> s]
Undefined == [t |-> "undefined"]
JsonVal(j) == [t |-> "json", json |-> j]

instanceofError(v) == v.t = "Error"

\* A JSON value, as far as the error envelope's shape can tell values apart:
\* its kind, an object's keys, and the value of the key errorMessages (an
\* array of strings and numbers when emArray, something else otherwise).
JStr(s) == [kind |-> "string", s |-> s]
JNum(s) == [kind |-> "number", s |-> s]
JObject(keys, emArray, items) ==
    [kind |-> "object", keys |-> keys, emArray |-> emArray, errorMessages |-> items, s |-> ""]
JNumber(s) ==
    [kind |-> "number", keys |-> {}, emArray |-> FALSE, errorMessages |-> <<>>, s |-> s]

NotFoundMessage == "No project could be found with key 'PK'."

JNotFound == JObject({"errorMessages", "errors"}, TRUE, <<JStr(NotFoundMessage)>>)
JSecondNotFound ==
    JObject({"errorMessages"}, TRUE,
            <<JStr("You do not have permission."), JStr(NotFoundMessage)>>)
JInternal == JObject({"errorMessages"}, TRUE, <<JStr("Internal server error")>>)
JContains ==
    JObject({"errorMessages"}, TRUE, <<JStr("Error: " \o NotFoundMessage)>>)
JNoMessages == JObject({"errorMessages"}, TRUE, <<>>)
JNumberItem == JObject({"errorMessages"}, TRUE, <<JNum("404")>>)
JNotArray == JObject({"errorMessages"}, FALSE, <<>>)
JOtherShape == JObject({"errors"}, FALSE, <<>>)
JStatus == JNumber("503")

\* The JSON texts of the model, each with the value it denotes; the first text
\* of a value is the one JSON.stringify produces.
JsonTexts ==
    << [text |-> "{\"errorMessages\":[\"No project could be found with key 'PK'.\"],\"errors\":{}}",
        value |-> JNotFound],
       [text |-> "{\"errorMessages\":[\"You do not have permission.\",\"No project could be found with key 'PK'.\"]}",
        value |-> JSecondNotFound],
       [text |-> "{\"errorMessages\":[\"Internal server error\"]}", value |-> JInternal],
       [text |-> "{ \"errorMessages\": [ \"Internal server error\" ] }", value |-> JInternal],
       [text |-> "{\"errorMessages\":[\"Error: No project could be found with key 'PK'.\"]}",
        value |-> JContains],
       [text |-> "{\"errorMessages\":[]}", value |-> JNoMessages],
       [text |-> "{\"errorMessages\":[404]}", value |-> JNumberItem],
       [text |-> "{\"errorMessages\":\"No project could be found with key 'PK'.\"}",
        value |-> JNotArray],
       [text |-> "{\"errors\":{\"projectKey\":\"invalid\"}}", value |-> JOtherShape],
       [text |-> "503", value |-> JStatus] >>

\* JSON.parse: the value of a JSON text, a SyntaxError (ok = FALSE) otherwise.
JSONParse(s) ==
    IF \E i \in 1..Len(JsonTexts) : JsonTexts[i].text = s
    THEN right(JsonTexts[CHOOSE i \in 1..Len(JsonTexts) : JsonTexts[i].text = s].value)
    ELSE left("SyntaxError")

\* JSON.stringify of a JavaScript value (undefined has no JSON text: "").
JSONStringify(v) ==
    IF v.t = "json"
    THEN JsonTexts[CHOOSE i \in 1..Len(JsonTexts) :
                      /\ JsonTexts[i].value = v.json
                      /\ \A k \in 1..(i - 1) : JsonTexts[k].value # v.json].text
    ELSE IF v.t = "string" THEN "\"" \o v.value \o "\""
    ELSE IF v.t = "payload" THEN "{" \o join(v.keys, ",") \o "}"
    ELSE IF v.t = "Error" THEN "{}"
    ELSE ""

(***************************************************************************)
(* client-service.ts and error-service.ts                                  *)
(***************************************************************************)
\* JiraErrorResponse = T.type({ errorMessages: T.readonlyArray(T.string) }),
\* on a JSON value: an object whose errorMessages is an array of strings.
JiraErrorResponseShape(j) ==
    /\ j.kind = "object"
    /\ "errorMessages" \in j.keys
    /\ j.emArray
    /\ \A i \in 1..Len(j.errorMessages) : j.errorMessages[i].kind = "string"

\* JiraErrorResponse.decode: the value itself when it has the shape.
JiraErrorResponseDecode(j) ==
    IF JiraErrorResponseShape(j) THEN right(JsonVal(j)) ELSE left(<<"Invalid value">>)

\* JiraErrorResponse.is, on a JavaScript value.
JiraErrorResponseIs(v) == v.t = "json" /\ JiraErrorResponseShape(v.json)

errorMessagesOf(v) == [i \in 1..Len(v.json.errorMessages) |-> v.json.errorMessages[i].s]

chainableError(error) ==
    [cause |->
        IF error.t = "undefined" THEN <<>>
        ELSE IF instanceofError(error) THEN <<error>>
        ELSE IF error.t = "string" THEN <<ErrorObj("Error", error.value, <<>>)>>
        ELSE <<ErrorObj("Error", JSONStringify(error), <<>>)>>]

GenericFailure == "Failed when invoking Jira API."

\* maybeJson parsing a thrown string as it parses an Error's message.
maybeJsonOfStrings(error) ==
    IF instanceofError(error)
    THEN mapLeft(JSONParse(error.message), LAMBDA syntaxError : error)
    ELSE IF error.t = "string"
    THEN mapLeft(JSONParse(error.value), LAMBDA syntaxError : error)
    ELSE left(ErrorObj("Error", JSONStringify(error), <<>>))

\* The onRejected function of TE.tryCatch in makeRequest.
maybeJson(error) ==
    IF instanceofError(error)
    THEN mapLeft(JSONParse(error.message), LAMBDA syntaxError : error)
    ELSE left(ErrorObj("Error", JSONStringify(error), <<>>))

onRejected(error) ==
    fold(chain(maybeJson(error), JiraErrorResponseDecode),
         LAMBDA ignored : NewError(GenericFailure, chainableError(error)),
         LAMBDA envelope : envelope)

\* makeRequest on the settled promise of the one call f(client) it makes.
makeRequest(settled) ==
    IF settled.fulfilled THEN right(settled.value) ELSE left(onRejected(settled.reason))

(***************************************************************************)
(* project-service.ts: the io-ts codecs and decode                         *)
(*                                                                         *)
(* A response payload is [t |-> "payload", kind, keys, ...]: kind is       *)
(* "object" or "array", keys the paths of the fields it holds with the     *)
(* type the codec wants, in the payload's order; the remaining fields are  *)
(* the values the pipeline reads.                                          *)
(***************************************************************************)
JiraProject == [array |-> FALSE,
                required |-> <<"self", "name", "id", "projectTypeKey", "key",
                               "lead/displayName", "lead/self", "lead/accountId">>]
JiraProjectRoles == [array |-> TRUE, required |-> <<"id", "name", "self">>]
JiraProjectRoleDetails == [array |-> FALSE, required |-> <<"id", "name", "self", "actors">>]
BoardSummaryResponse == [array |-> FALSE, required |-> <<"values">>]
BoardConfiguration == [array |-> FALSE, required |-> <<"id", "name", "type", "filter">>]
FilterConfiguration == [array |-> FALSE,
                        required |-> <<"id", "name", "jql", "sharePermissions">>]

\* JiraActorGroupRole.is
JiraActorGroupRoleIs(actor) == Len(actor.actorGroup) = 1

\* missingKeys reporting the first violation only.
firstMissingKey(required, keys, path) ==
    SubSeq(map(filterSeq(required, LAMBDA k : ~includes(keys, k)),
               LAMBDA k : "Invalid value undefined supplied to : " \o path \o k),
           1, 1)

missingKeys(required, keys, path) ==
    map(filterSeq(required, LAMBDA k : ~includes(keys, k)),
        LAMBDA k : "Invalid value undefined supplied to : " \o path \o k)

RECURSIVE itemViolations(_, _, _)
itemViolations(required, items, i) ==
    IF i > Len(items) THEN <<>>
    ELSE missingKeys(required, items[i].keys, ToString(i - 1) \o "/")
         \o itemViolations(required, items, i + 1)

\* PathReporter.report(decoder.decode(input)): every violation, in codec order.
validationErrors(codec, input) ==
    IF codec.array
    THEN (IF input.kind = "array"
          THEN itemViolations(codec.required, input.items, 1)
          ELSE <<"Invalid value supplied to : ReadonlyArray">>)
    ELSE (IF input.kind = "object"
          THEN missingKeys(codec.required, input.keys, "")
          ELSE <<"Invalid value supplied to : Readonly">>)

\* mapValidationError on decoder.decode(input).
mapValidationError(errors, input) == IF Len(errors) = 0 THEN right(input) ELSE left(errors)

\* decode(message, decoder)(input); message is message(errors, input), which
\* no caller makes depend on errors.
decode(message, codec, input) ==
    mapLeft(mapValidationError(validationErrors(codec, input), input),
            LAMBDA errors : AggregateError(errors, message))

(***************************************************************************)
(* project-service.ts: the pure parts of fetchProject and the board fetch  *)
(***************************************************************************)
NotFoundPrefix == "No project could be found with"

ProjectNotFound(message, projectKey, options) ==
    [t |-> "Error", cls |-> "ProjectNotFound", message |-> message,
     cause |-> options.cause, errors |-> <<>>, projectKey |-> projectKey]

instanceofProjectNotFound(v) == v.t = "Error" /\ v.cls = "ProjectNotFound"

\* classifyProjectError looking at the first message only.
classifyByFirstMessage(projectKey, error) ==
    IF JiraErrorResponseIs(error)
    THEN (IF Len(errorMessagesOf(error)) # 0
             /\ startsWith(errorMessagesOf(error)[1], NotFoundPrefix)
          THEN ProjectNotFound("Project [" \o projectKey \o "] does not exist.",
                               projectKey, chainableError(error))
          ELSE NewError("Unknown error while retrieving project [" \o projectKey \o "].",
                        chainableError(error)))
    ELSE error

\* classifyProjectError wrapping every error that is not the not-found one.
classifyWrappingAll(projectKey, error) ==
    IF JiraErrorResponseIs(error)
       /\ some(errorMessagesOf(error), LAMBDA m : startsWith(m, NotFoundPrefix))
    THEN ProjectNotFound("Project [" \o projectKey \o "] does not exist.",
                         projectKey, chainableError(error))
    ELSE NewError("Unknown error while retrieving project [" \o projectKey \o "].",
                  chainableError(error))

\* The RTE.mapLeft of fetchProject's first step.
classifyProjectError(projectKey, error) ==
    IF JiraErrorResponseIs(error)
    THEN (IF some(errorMessagesOf(error), LAMBDA m : startsWith(m, NotFoundPrefix))
          THEN ProjectNotFound("Project [" \o projectKey \o "] does not exist.",
                               projectKey, chainableError(error))
          ELSE NewError("Unknown error while retrieving project [" \o projectKey \o "].",
                        chainableError(error)))
    ELSE error

\* The decode of the get-project step, on what makeRequest resolved with.
getProjectStep(projectKey, response) ==
    chain(response,
          LAMBDA raw :
              decode("Failed to project response for [" \o projectKey \o "] ["
                         \o JSONStringify(raw) \o "].",
                     JiraProject, raw))

\* recoverNotFound recovering from a not-found envelope of any call too.
recoverNotFoundEnvelopes(error) ==
    IF \/ instanceofProjectNotFound(error)
       \/ /\ JiraErrorResponseIs(error)
          /\ some(errorMessagesOf(error), LAMBDA m : startsWith(m, NotFoundPrefix))
    THEN right(none)
    ELSE left(error)

\* recoverNotFound recovering from a decode failure too.
recoverDecodeFailures(error) ==
    IF instanceofProjectNotFound(error) \/ (error.t = "Error" /\ error.cls = "AggregateError")
    THEN right(none)
    ELSE left(error)

\* recoverNotFound recovering from every error.
recoverEvery(error) == right(none)

\* The RTE.orElseW that ends fetchProject.
recoverNotFound(error) ==
    IF instanceofProjectNotFound(error) THEN right(none) ELSE left(error)

roleSummariesPath(projectKey) == "/project/" \o projectKey \o "/roledetails"
roleDetailsPath(projectKey, roleId) ==
    "/project/" \o projectKey \o "/role/" \o ToString(roleId)

roleSummariesStep(projectKey, response) ==
    chain(response,
          LAMBDA raw :
              decode("Failed to decode project roles response for [" \o projectKey
                        \o "] at path [" \o roleSummariesPath(projectKey) \o "].",
                    JiraProjectRoles, raw))

roleDetailsStep(projectKey, roleId, response) ==
    chain(response,
          LAMBDA raw :
              decode("Failed to decode project role response for project [" \o projectKey
                        \o "] and role [" \o ToString(roleId) \o "] at path ["
                        \o roleDetailsPath(projectKey, roleId) \o "]",
                    JiraProjectRoleDetails, raw))

\* groupRolesOf listing each role's groups last first.
groupRolesOfGroupsReversed(roles) ==
    map(filterSeq(roles, LAMBDA role : some(role.actors, JiraActorGroupRoleIs)),
        LAMBDA role :
            [role |-> role.name,
             groups |-> [i \in 1..Len(filterSeq(role.actors, JiraActorGroupRoleIs)) |->
                            filterSeq(role.actors, JiraActorGroupRoleIs)
                                [Len(filterSeq(role.actors, JiraActorGroupRoleIs)) + 1 - i]
                                .actorGroup[1]]])

\* groupRolesOf keeping the roles that have no group actor.
groupRolesOfAll(roles) ==
    map(roles,
        LAMBDA role :
            [role |-> role.name,
             groups |-> map(filterSeq(role.actors, JiraActorGroupRoleIs),
                            LAMBDA group : group.actorGroup[1])])

\* groupRolesOf giving each role the group of its first group actor only.
groupRolesOfFirstGroup(roles) ==
    map(filterSeq(roles, LAMBDA role : some(role.actors, JiraActorGroupRoleIs)),
        LAMBDA role :
            [role |-> role.name,
             groups |-> <<filterSeq(role.actors, JiraActorGroupRoleIs)[1].actorGroup[1]>>])

\* The RTE.map of fetchProject: the roles that have a group actor, each with
\* the groups of its group actors.
groupRolesOf(roles) ==
    map(filterSeq(roles, LAMBDA role : some(role.actors, JiraActorGroupRoleIs)),
        LAMBDA role :
            [role |-> role.name,
             groups |-> map(filterSeq(role.actors, JiraActorGroupRoleIs),
                            LAMBDA group : group.actorGroup[1])])

augmentProject(project, roles) ==
    [id |-> project.id, key |-> project.key, lead |-> project.lead,
     groupRoles |-> groupRolesOf(roles)]

boardsStep(projectKey, response) ==
    chain(response,
          LAMBDA raw :
              decode("Failed to decode board response for [" \o projectKey \o "] ["
                        \o JSONStringify(raw) \o "].",
                    BoardSummaryResponse, raw))

boardConfigurationStep(boardId, response) ==
    chain(response,
          LAMBDA raw :
              decode("Failed to decode board configuration for [" \o ToString(boardId)
                        \o "] [" \o JSONStringify(raw) \o "].",
                    BoardConfiguration, raw))

filterStep(filterId, response) ==
    chain(response,
          LAMBDA raw :
              decode("Failed to decode filter configuration for [" \o filterId
                        \o "] [" \o JSONStringify(raw) \o "].",
                    FilterConfiguration, raw))

\* The ProjectBoard built by fetchBoardConfiguration; filter is an option.
projectBoard(boardConfiguration, maybeFilter) ==
    [id |-> boardConfiguration.id, name |-> boardConfiguration.name,
     type |-> boardConfiguration.type, filter |-> maybeFilter]

\* RTE.traverseArray: the n items all at once.
traverseArrayNext(n, k) == IF k = 0 THEN 1..n ELSE {}

\* A traversal that runs its first item again.
traverseFirstAgain(n, k) == IF k < n THEN {1} ELSE {}

\* RTE.traverseSeqArray over n items of which k have a result: the items it
\* runs next (one at a time, none once all have run).
traverseSeqArrayNext(n, k) == IF k < n THEN {k + 1} ELSE {}

(***************************************************************************)
(* project-service.ts: the policy                                          *)
(***************************************************************************)
lowerChar(c) ==
    CASE c = "A" -> "a" [] c = "B" -> "b" [] c = "C" -> "c" [] c = "D" -> "d"
      [] c = "E" -> "e" [] c = "F" -> "f" [] c = "G" -> "g" [] c = "H" -> "h"
      [] c = "I" -> "i" [] c = "J" -> "j" [] c = "K" -> "k" [] c = "L" -> "l"
      [] c = "M" -> "m" [] c = "N" -> "n" [] c = "O" -> "o" [] c = "P" -> "p"
      [] c = "Q" -> "q" [] c = "R" -> "r" [] c = "S" -> "s" [] c = "T" -> "t"
      [] c = "U" -> "u" [] c = "V" -> "v" [] c = "W" -> "w" [] c = "X" -> "x"
      [] c = "Y" -> "y" [] c = "Z" -> "z" [] OTHER -> c

\* The characters of s from position i on, in lower case.
RECURSIVE lowerFrom(_, _)
lowerFrom(s, i) ==
    IF i > Len(s) THEN ""
    ELSE lowerChar(SubSeq(s, i, i)) \o lowerFrom(s, i + 1)

toLowerCase(s) == lowerFrom(s, 1)

\* projectGroups leaving the letters as they were typed.
projectGroupsAsTyped(clientCode) ==
    map(<<"developers", "business", "administrators">>,
        LAMBDA suffix : clientCode \o "-" \o suffix)

projectGroups(clientCode) ==
    map(<<"developers", "business", "administrators">>,
        LAMBDA suffix : toLowerCase(clientCode \o "-" \o suffix))

\* rolesForGroup matching the suffix without its hyphen.
rolesForGroupByWord(group) ==
    IF endsWith(group, "developers") THEN <<"Team Member">>
    ELSE IF endsWith(group, "business") THEN <<"Business Owner">>
    ELSE IF endsWith(group, "administrators") THEN <<"Administrators">>
    ELSE <<>>

rolesForGroup(group) ==
    IF endsWith(group, "-developers") THEN <<"Team Member">>
    ELSE IF endsWith(group, "-business") THEN <<"Business Owner">>
    ELSE IF endsWith(group, "-administrators") THEN <<"Administrators">>
    ELSE <<>>

(***************************************************************************)
(* get-project.ts: validation                                              *)
(***************************************************************************)
\* difference with its two results the other way round.
differenceSwapped(a1s, a2s) ==
    <<filterSeq(a2s, LAMBDA a : ~includes(a1s, a)), filterSeq(a1s, LAMBDA a : ~includes(a2s, a))>>

difference(a1s, a2s) ==
    <<filterSeq(a1s, LAMBDA a : ~includes(a2s, a)), filterSeq(a2s, LAMBDA a : ~includes(a1s, a))>>

\* sequenceT of the Either applicative: the reasons of the first Left only.
sequenceTFirstLeft(fa, fb) ==
    IF isLeft(fa) THEN fa
    ELSE (IF isLeft(fb) THEN fb ELSE right(<<fa.right, fb.right>>))

\* Ap.sequenceT(applicativeValidation)(fa, fb): the reasons of both.
sequenceTValidation(fa, fb) ==
    IF isLeft(fa)
    THEN (IF isLeft(fb) THEN left(fa.left \o fb.left) ELSE fa)
    ELSE (IF isLeft(fb) THEN fb ELSE right(<<fa.right, fb.right>>))

\* The three checks of validatedGroup accumulated, none short-circuited.
accumulateGroupChecks(groupCheck, missingCheck, extraCheck) ==
    mapRight(sequenceTValidation(groupCheck, sequenceTValidation(missingCheck, extraCheck)),
             LAMBDA all : all[1])

\* The pipe that ends validatedGroup: E.chain on hasGroup, then the two role
\* checks accumulated.
combineGroupChecks(groupCheck, missingCheck, extraCheck) ==
    chain(groupCheck,
          LAMBDA group :
              mapRight(sequenceTValidation(missingCheck, extraCheck), LAMBDA both : group))

groupIsBoundTo(groupRole, group) ==
    some(groupRole.groups, LAMBDA g : g.displayName = group)

hasGroup(project, group) ==
    IF some(project.groupRoles, LAMBDA groupRole : groupIsBoundTo(groupRole, group))
    THEN right(group)
    ELSE left(<<"Project does not have required group [" \o group \o "].">>)

actualRoles(project, group) ==
    map(filterSeq(project.groupRoles, LAMBDA groupRole : groupIsBoundTo(groupRole, group)),
        LAMBDA groupRole : groupRole.role)

hasNoMissingRoles(group, missingRoles) ==
    IF Len(missingRoles) = 0 THEN right(group)
    ELSE left(<<"Missing roles [" \o join(missingRoles, ", ") \o "]">>)

hasNoExtraRoles(group, extraRoles) ==
    IF Len(extraRoles) = 0 THEN right(group)
    ELSE left(<<"Extra roles [" \o join(extraRoles, ", ") \o "]">>)

\* The checks of validatedGroup on [extraRoles, missingRoles].
groupChecks(project, group, extraAndMissing) ==
    combineGroupChecks(hasGroup(project, group),
                       hasNoMissingRoles(group, extraAndMissing[2]),
                       hasNoExtraRoles(group, extraAndMissing[1]))

validatedGroup(project, group) ==
    groupChecks(project, group,
                difference(actualRoles(project, group), rolesForGroup(group)))

hasFilter(board) ==
    IF Len(board.filter) # 0 THEN right(board.filter[1])
    ELSE left(<<"Project board does not have a filter.">>)

\* filterHasPermissions asking every share permission to be the project's.
filterSharedOnlyWith(project, filter) ==
    IF \A i \in DOMAIN filter.sharePermissions :
          filter.sharePermissions[i].project.id = project.id
    THEN right(filter)
    ELSE left(<<"Filter is not shared with project.">>)

filterHasPermissions(project, filter) ==
    IF some(filter.sharePermissions, LAMBDA permission : permission.project.id = project.id)
    THEN right(filter)
    ELSE left(<<"Filter is not shared with project.">>)

validatedFilter(project, board) ==
    chain(hasFilter(board), LAMBDA filter : filterHasPermissions(project, filter))

\* projectSummary reporting only the expected groups some role is bound to.
projectSummaryOfBoundGroups(project, boards, clientCode) ==
    [level |-> "info", kind |-> "summary",
     id |-> project.id, key |-> project.key, lead |-> project.lead.displayName,
     groups |->
        map(filterSeq(projectGroups(clientCode),
                      LAMBDA expectedGroup : isRight(hasGroup(project, expectedGroup))),
            LAMBDA expectedGroup :
                [group |-> expectedGroup,
                 roles |-> join(actualRoles(project, expectedGroup), ","),
                 validated |-> validatedGroup(project, expectedGroup)]),
     boards |->
        map(boards,
            LAMBDA board :
                [name |-> board.name, type |-> board.type,
                 validated |-> validatedFilter(project, board)])]

\* projectSummary: the report handed to Console.info, one line per expected
\* group and one per board.
projectSummary(project, boards, clientCode) ==
    [level |-> "info", kind |-> "summary",
     id |-> project.id, key |-> project.key, lead |-> project.lead.displayName,
     groups |->
        map(projectGroups(clientCode),
            LAMBDA expectedGroup :
                [group |-> expectedGroup,
                 roles |-> join(actualRoles(project, expectedGroup), ","),
                 validated |-> validatedGroup(project, expectedGroup)]),
     boards |->
        map(boards,
            LAMBDA board :
                [name |-> board.name, type |-> board.type,
                 validated |-> validatedFilter(project, board)])]

(***************************************************************************)
(* The remote service: what a call's promise can settle with               *)
(***************************************************************************)
fulfilled(value) == [fulfilled |-> TRUE, value |-> value, reason |-> Undefined]
rejected(reason) == [fulfilled |-> FALSE, value |-> Undefined, reason |-> reason]

PlainText == "connect ECONNREFUSED"

\* Every kind of rejection makeRequest tells apart: an Error whose message is
\* each JSON text or no JSON at all, and values that are no Error.
AllReasons ==
    {ErrorObj("Error", JsonTexts[i].text, <<>>) : i \in 1..Len(JsonTexts)}
    \cup {ErrorObj("Error", PlainText, <<>>), ErrorObj("Error", "", <<>>),
          StringVal(PlainText), StringVal(JsonTexts[1].text), Undefined,
          JsonVal(JNotFound), JsonVal(JOtherShape)}

\* The rejections drawn for the calls other than get-project.
FewReasons ==
    {ErrorObj("Error", JsonTexts[1].text, <<>>), ErrorObj("Error", JsonTexts[3].text, <<>>),
     ErrorObj("Error", PlainText, <<>>), Undefined}

SubjectProjectId == "10000"
OtherProjectId == "10001"

projectPayload(keys) ==
    [t |-> "payload", kind |-> "object", keys |-> keys,
     id |-> SubjectProjectId, key |-> "PK", lead |-> [displayName |-> "Lead Name"]]

GetProjectValues ==
    {projectPayload(JiraProject.required),
     projectPayload(<<"self", "name", "id", "projectTypeKey", "key">>),
     projectPayload(<<"self", "name", "lead/displayName", "lead/self", "lead/accountId">>)}

RoleName(i) ==
    CASE i = 1 -> "Team Member" [] i = 2 -> "Administrators" [] i = 3 -> "Business Owner"
      [] OTHER -> "Role " \o ToString(i)

RoleId(i) == 10000 + i

roleSummary(i) ==
    [keys |-> JiraProjectRoles.required, id |-> RoleId(i), name |-> RoleName(i)]

RoleSummariesValues ==
    {[t |-> "payload", kind |-> "array", keys |-> <<>>,
      items |-> [i \in 1..n |-> roleSummary(i)]] : n \in 0..MaxRoles}
    \cup {[t |-> "payload", kind |-> "array", keys |-> <<>>,
           items |-> <<[keys |-> <<"name">>, id |-> RoleId(1), name |-> RoleName(1)]>>],
          [t |-> "payload", kind |-> "object", keys |-> <<>>, items |-> <<>>]}

userActor ==
    [id |-> 1, displayName |-> "A User", actorGroup |-> <<>>,
     actorUser |-> <<[accountId |-> "u-1"]>>]
groupActor(name) ==
    [id |-> 2, displayName |-> name,
     actorGroup |-> <<[groupId |-> "id-" \o name, displayName |-> name]>>,
     actorUser |-> <<>>]

ActorLists ==
    {<<userActor>>,
     <<userActor, groupActor("acme-developers")>>,
     <<groupActor("acme-administrators"), groupActor("acme-business")>>}

RoleDetailsValues(i) ==
    {[t |-> "payload", kind |-> "object", keys |-> JiraProjectRoleDetails.required,
      id |-> RoleId(i), name |-> RoleName(i), actors |-> actors] : actors \in ActorLists}
    \cup {[t |-> "payload", kind |-> "object", keys |-> <<"id", "name", "self">>,
           id |-> RoleId(i), name |-> RoleName(i), actors |-> <<>>]}

BoardId(i) == 100 + i

boardSummary(i) == [id |-> BoardId(i), name |-> "Board " \o ToString(i)]

BoardsValues ==
    {[t |-> "payload", kind |-> "object", keys |-> <<"values">>,
      values |-> [i \in 1..n |-> boardSummary(i)]] : n \in 0..MaxBoards}
    \cup {[t |-> "payload", kind |-> "object", keys |-> <<>>, values |-> <<>>]}

FilterId == "20001"

BoardConfigurationValues(boardId) ==
    {[t |-> "payload", kind |-> "object", keys |-> BoardConfiguration.required,
      id |-> boardId, name |-> "Board " \o ToString(boardId - 100), type |-> "kanban",
      filter |-> [id |-> fid]] : fid \in {<<>>, <<FilterId>>}}
    \cup {[t |-> "payload", kind |-> "object", keys |-> <<"id", "name", "filter">>,
           id |-> boardId, name |-> "Board " \o ToString(boardId - 100), type |-> "",
           filter |-> [id |-> <<FilterId>>]]}

sharedWith(projectId) == [project |-> [id |-> projectId]]

FilterValues(filterId) ==
    {[t |-> "payload", kind |-> "object", keys |-> FilterConfiguration.required,
      id |-> filterId, jql |-> "project = PK", sharePermissions |-> shares] :
        shares \in {<<sharedWith(OtherProjectId)>>,
                    <<sharedWith(OtherProjectId), sharedWith(SubjectProjectId)>>}}
    \cup {[t |-> "payload", kind |-> "object", keys |-> <<"id", "name">>,
           id |-> filterId, jql |-> "", sharePermissions |-> <<>>]}

settlements(values, reasons) ==
    {fulfilled(v) : v \in values} \cup {rejected(r) : r \in reasons}

(***************************************************************************)
(* One invocation of the get-project command                               *)
(***************************************************************************)
VARIABLES
    args,       \* the command's arguments: projectKey, clientCode, verbose
    pc,         \* "idle", "running" (project(...)(env)() awaited) or "done"
    pStage,     \* fetchProject: "idle", "project", "roles", "details", "done";
                \* a fetch under withProgress alone: "idle", "wrapped", "done"
    pInflight,  \* the calls of fetchProject that have not settled
    pTrace,     \* fetchProject's progress events and calls, in order
    pProject,   \* the decoded JiraProject, once there is one
    pRoles,     \* the decoded role summaries
    pDetails,   \* the role details fetched so far
    pResult,    \* the Either fetchProject resolved with, once it has
    bStage,     \* fetchProjectBoards: "idle", "boards", "configuration", "filter", "done"
    bInflight,  \* the calls of fetchProjectBoards that have not settled
    bTrace,     \* fetchProjectBoards' progress events and calls, in order
    bSummaries, \* the decoded board summaries
    bConfig,    \* the board configuration whose filter is being fetched, and the filter's id
    bBoards,    \* the ProjectBoards built so far
    bResult,    \* the Either fetchProjectBoards resolved with, once it has
    console,    \* what was handed to Console.warn and Console.info
    result,     \* the Either project(...)(env)() resolved with, once it has
    outcome,    \* how the command handler ended, once it has
    subject,    \* a pure function's input, when one is applied on its own
    verdict     \* what the function returned for subject, once it has

pVars == <<pStage, pInflight, pTrace, pProject, pRoles, pDetails, pResult>>
bVars == <<bStage, bInflight, bTrace, bSummaries, bConfig, bBoards, bResult>>
endVars == <<console, result, outcome>>
pureVars == <<subject, verdict>>
vars == <<args, pc, pVars, bVars, endVars, pureVars>>

Call(op, arg, item) == [op |-> op, arg |-> arg, item |-> item]

\* The events of a trace.
start(message) == [ev |-> "start", message |-> message]
success(message) == [ev |-> "success", message |-> message]
\* fail reporting success.
failAsSuccess(message) == [ev |-> "success", message |-> message]
fail(message) == [ev |-> "fail", message |-> message]
issue(call) == [ev |-> "call", call |-> call]
\* A call settles: what the client settled with, what makeRequest resolved
\* with (response) and what the decode after it resolved with (result).
settle(call, settled, response, decoded) ==
    [ev |-> "settle", call |-> call, settled |-> settled, response |-> response,
     result |-> decoded]

RECURSIVE ascending(_)
ascending(S) ==
    IF S = {} THEN <<>>
    ELSE LET m == CHOOSE x \in S : \A y \in S : x <= y
         IN  <<m>> \o ascending(S \ {m})

RECURSIVE flatten(_)
flatten(xss) == IF Len(xss) = 0 THEN <<>> ELSE xss[1] \o flatten(Tail(xss))

roleMessage(role) == "Getting role " \o role.name
roleCall(projectKey, roles, i) == Call("genericGet", roleDetailsPath(projectKey, roles[i].id), i)

boardMessage(boardId) == "Getting board configuration " \o ToString(boardId)
boardCall(summaries, i) == Call("getConfiguration", ToString(summaries[i].id), i)

filterMessage(filterId) == "Getting filter configuration " \o filterId
filterCall(filterId, i) == Call("genericGet", "/filter/" \o filterId, i)

Init ==
    /\ args \in [projectKey : {"PK"}, clientCode : {"acme"}, verbose : BOOLEAN]
    /\ pc = "idle"
    /\ pStage = "idle" /\ pInflight = {} /\ pTrace = <<>> /\ pProject = <<>>
    /\ pRoles = <<>> /\ pDetails = <<>> /\ pResult = <<>>
    /\ bStage = "idle" /\ bInflight = {} /\ bTrace = <<>> /\ bSummaries = <<>>
    /\ bConfig = <<>> /\ bBoards = <<>> /\ bResult = <<>>
    /\ console = <<>> /\ result = <<>> /\ outcome = <<>>
    /\ subject = [op |-> "none"] /\ verdict = <<>>

\* The handler calls project(...)(env)(): Ap.sequenceT(RTE.ApplyPar) starts
\* fetchProject and fetchProjectBoards, each up to its first remote call.
Invoke ==
    /\ pc = "idle"
    /\ pc' = "running"
    /\ pStage' = "project"
    /\ pInflight' = {Call("getProject", args.projectKey, 0)}
    /\ pTrace' = <<start("Fetching project"), issue(Call("getProject", args.projectKey, 0))>>
    /\ bStage' = "boards"
    /\ bInflight' = {Call("getAllBoards", args.projectKey, 0)}
    /\ bTrace' = <<start("Getting boards for project"),
                   issue(Call("getAllBoards", args.projectKey, 0))>>
    /\ UNCHANGED <<args, pProject, pRoles, pDetails, pResult, bSummaries, bConfig, bBoards,
                   bResult, endVars, pureVars>>

\* fetchProject ends with result, after the events given.
ProjectBranchEnds(call, events, ended) ==
    /\ pStage' = "done"
    /\ pInflight' = pInflight \ {call}
    /\ pTrace' = pTrace \o events
    /\ pResult' = <<ended>>

\* fetchProject fails with error, unless the error is ProjectNotFound.
ProjectBranchFails(call, events, error) ==
    /\ ProjectBranchEnds(call, events, recoverNotFound(error))
    /\ UNCHANGED <<pProject, pRoles, pDetails>>

\* The role-detail fetches traverseSeqArray runs next, each under its progress.
startRoleDetails(projectKey, roles, items) ==
    flatten([k \in 1..Len(items) |->
                <<start(roleMessage(roles[items[k]])),
                  issue(roleCall(projectKey, roles, items[k]))>>])

\* The role details are all there: the Project with its groupRoles.
RolesFetched(call, events, details) ==
    /\ ProjectBranchEnds(call, events \o <<success("Fetching project roles")>>,
                         right(someOf(augmentProject(pProject[1], details))))
    /\ pDetails' = details
    /\ UNCHANGED pProject

\* traverseSeqArray goes on with the roles in items (none: it is done).
RolesTraversed(call, events, roles, details, items) ==
    /\ pRoles' = roles
    /\ IF Len(details) = Len(roles)
       THEN RolesFetched(call, events, details)
       ELSE /\ pStage' = "details"
            /\ pDetails' = details
            /\ pInflight' = (pInflight \ {call})
                             \cup {roleCall(pProject[1].key, roles, i) : i \in items}
            /\ pTrace' = pTrace \o events
                                \o startRoleDetails(pProject[1].key, roles, ascending(items))
            /\ UNCHANGED <<pProject, pResult>>

RoleSummariesRequested(call, events, project, next) ==
    /\ pStage' = "roles"
    /\ pProject' = <<project>>
    /\ pInflight' = (pInflight \ {call}) \cup {next}
    /\ pTrace' = pTrace \o events \o <<start("Fetching project roles"), issue(next)>>
    /\ UNCHANGED <<pRoles, pDetails, pResult>>

\* GetProjectResolved with the progress resolved on what fetchProject ends
\* with, after the recovery.
GetProjectResolvedAfterRecovery(call, event) ==
    IF isLeft(event.result)
    THEN ProjectBranchFails(call,
                            <<event,
                              IF isRight(recoverNotFound(classifyProjectError(
                                             args.projectKey, event.result.left)))
                              THEN success("Fetching project")
                              ELSE fail("Fetching project")>>,
                            classifyProjectError(args.projectKey, event.result.left))
    ELSE RoleSummariesRequested(call, <<event, success("Fetching project")>>,
                                event.result.right,
                                Call("genericGet", roleSummariesPath(event.result.right.key), 0))

GetProjectResolved(call, event) ==
    IF isLeft(event.result)
    THEN ProjectBranchFails(call, <<event, fail("Fetching project")>>,
                            classifyProjectError(args.projectKey, event.result.left))
    ELSE RoleSummariesRequested(call, <<event, success("Fetching project")>>,
                                event.result.right,
                                Call("genericGet", roleSummariesPath(event.result.right.key), 0))

GetProjectResponded(call, settled, response) ==
    GetProjectResolved(call, settle(call, settled, response,
                                    getProjectStep(args.projectKey, response)))

\* The get-project call settles: decode, classify, then the role summaries.
GetProjectSettled ==
    /\ pc = "running" /\ pStage = "project"
    /\ \E call \in pInflight, settled \in settlements(GetProjectValues, AllReasons) :
        GetProjectResponded(call, settled, makeRequest(settled))
    /\ UNCHANGED <<args, pc, bVars, endVars, pureVars>>

RoleSummariesResolved(call, event) ==
    IF isLeft(event.result)
    THEN ProjectBranchFails(call, <<event, fail("Fetching project roles")>>,
                            event.result.left)
    ELSE RolesTraversed(call, <<event>>, event.result.right.items, <<>>,
                        traverseSeqArrayNext(Len(event.result.right.items), 0))

RoleSummariesResponded(call, settled, response) ==
    RoleSummariesResolved(call, settle(call, settled, response,
                                       roleSummariesStep(pProject[1].key, response)))

\* The role-summary call settles: decode, then the first role detail.
RoleSummariesSettled ==
    /\ pc = "running" /\ pStage = "roles"
    /\ \E call \in pInflight, settled \in settlements(RoleSummariesValues, FewReasons) :
        RoleSummariesResponded(call, settled, makeRequest(settled))
    /\ UNCHANGED <<args, pc, bVars, endVars, pureVars>>

RoleDetailsResolved(call, event, role) ==
    IF isLeft(event.result)
    THEN ProjectBranchFails(call,
                            <<event, fail(roleMessage(role)),
                              fail("Fetching project roles")>>,
                            event.result.left)
    ELSE RolesTraversed(call, <<event, success(roleMessage(role))>>,
                        pRoles, Append(pDetails, event.result.right),
                        traverseSeqArrayNext(Len(pRoles), Len(pDetails) + 1))

RoleDetailsResponded(call, settled, response) ==
    RoleDetailsResolved(call,
                        settle(call, settled, response,
                               roleDetailsStep(pProject[1].key, pRoles[call.item].id,
                                               response)),
                        pRoles[call.item])

\* A role-detail call settles: decode, then the next role or the Project.
RoleDetailsSettled ==
    /\ pc = "running" /\ pStage = "details"
    /\ \E call \in pInflight :
       \E settled \in settlements(RoleDetailsValues(call.item), FewReasons) :
        RoleDetailsResponded(call, settled, makeRequest(settled))
    /\ UNCHANGED <<args, pc, bVars, endVars, pureVars>>

\* fetchProjectBoards ends with result, after the events given.
BoardsBranchEnds(call, events, ended) ==
    /\ bStage' = "done"
    /\ bInflight' = bInflight \ {call}
    /\ bTrace' = bTrace \o events \o <<IF isLeft(ended)
                                       THEN fail("Getting boards for project")
                                       ELSE success("Getting boards for project")>>
    /\ bResult' = <<ended>>

BoardsBranchFails(call, events, error) ==
    /\ BoardsBranchEnds(call, events, left(error))
    /\ UNCHANGED <<bSummaries, bConfig, bBoards>>

\* The board-configuration fetches traverseSeqArray runs next.
startBoardConfigurations(summaries, items) ==
    flatten([k \in 1..Len(items) |->
                <<start(boardMessage(summaries[items[k]].id)),
                  issue(boardCall(summaries, items[k]))>>])

\* traverseSeqArray goes on with the boards in items (none: it is done).
BoardsTraversed(call, events, summaries, boards, items) ==
    /\ bSummaries' = summaries
    /\ bBoards' = boards
    /\ bConfig' = <<>>
    /\ IF Len(boards) = Len(summaries)
       THEN BoardsBranchEnds(call, events, right(boards))
       ELSE /\ bStage' = "configuration"
            /\ bInflight' = (bInflight \ {call}) \cup {boardCall(summaries, i) : i \in items}
            /\ bTrace' = bTrace \o events
                                \o startBoardConfigurations(summaries, ascending(items))
            /\ UNCHANGED bResult

BoardsResolved(call, event) ==
    IF isLeft(event.result)
    THEN BoardsBranchFails(call, <<event>>, event.result.left)
    ELSE BoardsTraversed(call, <<event>>, event.result.right.values, <<>>,
                         traverseSeqArrayNext(Len(event.result.right.values), 0))

BoardsResponded(call, settled, response) ==
    BoardsResolved(call, settle(call, settled, response,
                                boardsStep(args.projectKey, response)))

\* The list-boards call settles: decode, then the first board's configuration.
BoardsSettled ==
    /\ pc = "running" /\ bStage = "boards"
    /\ \E call \in bInflight, settled \in settlements(BoardsValues, FewReasons) :
        BoardsResponded(call, settled, makeRequest(settled))
    /\ UNCHANGED <<args, pc, pVars, endVars, pureVars>>

\* fetchFilterForBoard fetching a filter whether or not there is a filter id.
fetchFilterAlways(boardConfiguration) ==
    IF Len(boardConfiguration.filter.id) = 0 THEN <<"undefined">>
    ELSE boardConfiguration.filter.id

\* fetchFilterForBoard: the id of the filter to fetch, none when the board
\* configuration carries no filter id.
fetchFilterForBoard(boardConfiguration) == boardConfiguration.filter.id

\* fetchFilterForBoard finds a filter id: the filter is fetched.
FilterRequested(call, events, boardConfiguration, filterId) ==
    /\ bStage' = "filter"
    /\ bConfig' = <<boardConfiguration, filterId>>
    /\ bInflight' = (bInflight \ {call}) \cup {filterCall(filterId, call.item)}
    /\ bTrace' = bTrace \o events
                        \o <<start(filterMessage(filterId)),
                             issue(filterCall(filterId, call.item))>>
    /\ UNCHANGED <<bSummaries, bBoards, bResult>>

\* BoardBuilt putting the new board first.
BoardBuiltFirst(call, events, board) ==
    BoardsTraversed(call, events \o <<success(boardMessage(bSummaries[call.item].id))>>,
                    bSummaries, <<board>> \o bBoards,
                    traverseSeqArrayNext(Len(bSummaries), Len(bBoards) + 1))

\* A ProjectBoard is built: the next board's configuration, or the board list.
BoardBuilt(call, events, board) ==
    BoardsTraversed(call, events \o <<success(boardMessage(bSummaries[call.item].id))>>,
                    bSummaries, Append(bBoards, board),
                    traverseSeqArrayNext(Len(bSummaries), Len(bBoards) + 1))

BoardConfigurationFetched(call, event, filterIds) ==
    IF Len(filterIds) # 0
    THEN FilterRequested(call, <<event>>, event.result.right, filterIds[1])
    ELSE BoardBuilt(call, <<event>>, projectBoard(event.result.right, <<>>))

BoardConfigurationResolved(call, event, boardId) ==
    IF isLeft(event.result)
    THEN BoardsBranchFails(call, <<event, fail(boardMessage(boardId))>>, event.result.left)
    ELSE BoardConfigurationFetched(call, event, fetchFilterForBoard(event.result.right))

BoardConfigurationResponded(call, settled, response) ==
    BoardConfigurationResolved(call,
                               settle(call, settled, response,
                                      boardConfigurationStep(bSummaries[call.item].id,
                                                             response)),
                               bSummaries[call.item].id)

\* A board-configuration call settles: decode, then fetchFilterForBoard.
BoardConfigurationSettled ==
    /\ pc = "running" /\ bStage = "configuration"
    /\ \E call \in bInflight :
       \E settled \in settlements(BoardConfigurationValues(bSummaries[call.item].id),
                                  FewReasons) :
        BoardConfigurationResponded(call, settled, makeRequest(settled))
    /\ UNCHANGED <<args, pc, pVars, endVars, pureVars>>

\* FilterResolved building the board with no filter when the filter fetch
\* fails.
FilterResolvedLeniently(call, event, boardId, filterId) ==
    IF isLeft(event.result)
    THEN BoardBuilt(call, <<event, fail(filterMessage(filterId))>>,
                    projectBoard(bConfig[1], <<>>))
    ELSE BoardBuilt(call, <<event, success(filterMessage(filterId))>>,
                    projectBoard(bConfig[1], <<event.result.right>>))

FilterResolved(call, event, boardId, filterId) ==
    IF isLeft(event.result)
    THEN BoardsBranchFails(call,
                           <<event, fail(filterMessage(filterId)),
                             fail(boardMessage(boardId))>>,
                           event.result.left)
    ELSE BoardBuilt(call, <<event, success(filterMessage(filterId))>>,
                    projectBoard(bConfig[1], <<event.result.right>>))

FilterResponded(call, settled, response, filterId) ==
    FilterResolved(call, settle(call, settled, response, filterStep(filterId, response)),
                   bSummaries[call.item].id, filterId)

\* A filter call settles: decode, then the board with its filter.
FilterSettled ==
    /\ pc = "running" /\ bStage = "filter"
    /\ \E call \in bInflight :
       \E settled \in settlements(FilterValues(bConfig[2]), FewReasons) :
        FilterResponded(call, settled, makeRequest(settled), bConfig[2])
    /\ UNCHANGED <<args, pc, pVars, endVars, pureVars>>

\* sequenceTPar looking at the boards' result first.
sequenceTParBoardsFirst(fa, fb) ==
    IF isLeft(fb) THEN fb
    ELSE IF isLeft(fa) THEN fa
    ELSE right(<<fa.right, fb.right>>)

\* Ap.sequenceT(RTE.ApplyPar): both results, the first Left of the two.
sequenceTPar(fa, fb) ==
    IF isLeft(fa) THEN fa
    ELSE IF isLeft(fb) THEN fb
    ELSE right(<<fa.right, fb.right>>)

\* report looking at verbose before it looks at the project.
reportVerboseFirst(verbose, projectKey, clientCode, maybeProject, boards) ==
    IF verbose
    THEN [level |-> "info", kind |-> "json", boards |-> boards]
    ELSE IF maybeProject.tag = "None"
    THEN [level |-> "warn", kind |-> "absent",
          text |-> "Project [" \o projectKey \o "] does not exist or is not visible."]
    ELSE projectSummary(maybeProject.value, boards, clientCode)

\* The RTE.chainFirstIOK of project: what goes to the console.
report(verbose, projectKey, clientCode, maybeProject, boards) ==
    IF maybeProject.tag = "None"
    THEN [level |-> "warn", kind |-> "absent",
          text |-> "Project [" \o projectKey \o "] does not exist or is not visible."]
    ELSE IF verbose
    THEN [level |-> "info", kind |-> "json", boards |-> boards]
    ELSE projectSummary(maybeProject.value, boards, clientCode)

\* handlerOutcome throwing an Error that has no cause.
handlerOutcomeWithoutCause(projectKey, resolved) ==
    IF isLeft(resolved)
    THEN [threw |-> TRUE,
          error |-> <<ErrorObj("Error", "Failed to get project [" \o projectKey \o "].",
                               <<>>)>>]
    ELSE [threw |-> FALSE, error |-> <<>>]

\* How the command handler ends on the result of project(...)(env)().
handlerOutcome(projectKey, resolved) ==
    IF isLeft(resolved)
    THEN [threw |-> TRUE,
          error |-> <<NewError("Failed to get project [" \o projectKey \o "].",
                               chainableError(resolved.left))>>]
    ELSE [threw |-> FALSE, error |-> <<>>]

\* Both fetches have resolved: the pair or the error, the console, the handler.
Completed(resolved) ==
    /\ result' = <<resolved>>
    /\ console' = IF isLeft(resolved) THEN console
                  ELSE Append(console,
                              report(args.verbose, args.projectKey, args.clientCode,
                                     resolved.right[1], resolved.right[2]))
    /\ outcome' = <<handlerOutcome(args.projectKey, resolved)>>

\* Complete waiting for two successes.
CompleteOnSuccess ==
    /\ pc = "running" /\ pResult # <<>> /\ bResult # <<>>
    /\ isRight(pResult[1]) /\ isRight(bResult[1])
    /\ pc' = "done"
    /\ Completed(sequenceTPar(pResult[1], bResult[1]))
    /\ UNCHANGED <<args, pVars, bVars, pureVars>>

Complete ==
    /\ pc = "running" /\ pResult # <<>> /\ bResult # <<>>
    /\ pc' = "done"
    /\ Completed(sequenceTPar(pResult[1], bResult[1]))
    /\ UNCHANGED <<args, pVars, bVars, pureVars>>

Next ==
    \/ Invoke
    \/ GetProjectSettled
    \/ RoleSummariesSettled
    \/ RoleDetailsSettled
    \/ BoardsSettled
    \/ BoardConfigurationSettled
    \/ FilterSettled
    \/ Complete

Spec == Init /\ [][Next]_vars

\* The invocation when every issued call settles and every continuation of
\* the two tasks and of the handler gets to run.
SpecLive == Init /\ [][Next]_vars /\ WF_vars(Next)

(***************************************************************************)
(* The validation on its own: validatedGroup applied to a Project and a    *)
(* group that are drawn from bounded sets                                  *)
(***************************************************************************)
MaxGroupRoles == 2
MaxGroups == 2

GroupNames == {"acme-developers", "acme-business", "jira-users"}
RoleNames == {"Team Member", "Business Owner", "Viewer"}

injective(xs) == \A i, j \in DOMAIN xs : xs[i] = xs[j] => i = j

\* The sequences without repetition of at most n elements of S.
distinctSeqs(S, n) == {xs \in UNION {[1..k -> S] : k \in 0..n} : injective(xs)}

actorGroupOf(name) == [groupId |-> "id-" \o name, displayName |-> name]

\* The groupRoles fetchProject can build: every role has a group, no role
\* comes twice.
GroupRolesValues ==
    {groupRoles \in UNION {[1..k -> [role : RoleNames,
                                     groups : distinctSeqs(GroupNames, MaxGroups) \ {<<>>}]]
                               : k \in 0..MaxGroupRoles} :
        injective([i \in DOMAIN groupRoles |-> groupRoles[i].role])}

projectOf(groupRoles) ==
    [id |-> SubjectProjectId, key |-> "PK",
     lead |-> [displayName |-> "Lead Name"],
     groupRoles |-> [i \in DOMAIN groupRoles |->
                        [role |-> groupRoles[i].role,
                         groups |-> map(groupRoles[i].groups, actorGroupOf)]]]

MaxShares == 2
MaxCodeLen == 2

\* The filters fetchFilter can decode: share permissions with the subject
\* project and another one, in every order.
FilterSubjects ==
    {[t |-> "payload", kind |-> "object", keys |-> FilterConfiguration.required,
      id |-> FilterId, jql |-> "project = PK",
      sharePermissions |-> [i \in DOMAIN ids |-> sharedWith(ids[i])]] :
        ids \in UNION {[1..k -> {SubjectProjectId, OtherProjectId}] : k \in 0..MaxShares}}

\* The ProjectBoards fetchBoardConfiguration can build.
BoardSubjects ==
    {[id |-> BoardId(1), name |-> "Board 1", type |-> "kanban", filter |-> maybeFilter] :
        maybeFilter \in {<<>>} \cup {<<f>> : f \in FilterSubjects}}

\* The characters of a client code, each with its lower-case form.
CodeChars == {<<"a", "a">>, <<"A", "a">>, <<"Z", "z">>, <<"q", "q">>, <<"-", "-">>, <<"7", "7">>}

RECURSIVE spell(_, _)
spell(chars, side) ==
    IF Len(chars) = 0 THEN "" ELSE chars[1][side] \o spell(Tail(chars), side)

\* The client codes of at most MaxCodeLen characters, each with its
\* lower-case form.
ClientCodes ==
    {[code |-> spell(chars, 1), lowered |-> spell(chars, 2)] :
        chars \in UNION {[1..k -> CodeChars] : k \in 0..MaxCodeLen}}

\* The group names rolesForGroup is asked about, each with the suffix it is
\* built to end with ("" when it is built to end with none of the three):
\* a suffix after several prefixes, names that miss a suffix by a letter, a
\* case or a hyphen, and the groups projectGroups returns.
GroupSubjects ==
    {[group |-> prefix \o suffix, suffix |-> suffix, expected |-> FALSE] :
        prefix \in {"", "acme", "acme-business", "x-administrators-y"},
        suffix \in {"-developers", "-business", "-administrators"}}
    \cup {[group |-> other, suffix |-> "", expected |-> FALSE] :
            other \in {"", "jira-users", "acme-Developers", "acme-developer",
                       "acmedevelopers", "acme-developers-x", "acme-business ",
                       "administrators", "acme-BUSINESS"}}
    \cup {[group |-> projectGroups(clientCode.code)[i],
           suffix |-> <<"-developers", "-business", "-administrators">>[i],
           expected |-> TRUE] :
            clientCode \in ClientCodes, i \in 1..3}

InitValidation ==
    /\ args = [projectKey |-> "PK", clientCode |-> "acme", verbose |-> FALSE]
    /\ pc = "idle"
    /\ pStage = "idle" /\ pInflight = {} /\ pTrace = <<>> /\ pProject = <<>>
    /\ pRoles = <<>> /\ pDetails = <<>> /\ pResult = <<>>
    /\ bStage = "idle" /\ bInflight = {} /\ bTrace = <<>> /\ bSummaries = <<>>
    /\ bConfig = <<>> /\ bBoards = <<>> /\ bResult = <<>>
    /\ console = <<>> /\ result = <<>> /\ outcome = <<>>
    /\ \/ \E groupRoles \in GroupRolesValues :
          \E i \in DOMAIN projectGroups(args.clientCode) :
             subject = [op |-> "validatedGroup", project |-> projectOf(groupRoles),
                        group |-> projectGroups(args.clientCode)[i]]
       \/ \E board \in BoardSubjects :
             subject = [op |-> "validatedFilter", project |-> projectOf(<<>>),
                        board |-> board]
       \/ \E clientCode \in ClientCodes :
             subject = [op |-> "projectGroups", clientCode |-> clientCode.code,
                        lowered |-> clientCode.lowered]
       \/ \E group \in GroupSubjects :
             subject = [op |-> "rolesForGroup", group |-> group.group,
                        suffix |-> group.suffix, expected |-> group.expected]
    /\ verdict = <<>>

ValidateGroup ==
    /\ subject.op = "validatedGroup" /\ verdict = <<>>
    /\ verdict' = <<validatedGroup(subject.project, subject.group)>>
    /\ UNCHANGED <<args, pc, pVars, bVars, endVars, subject>>

ValidateFilter ==
    /\ subject.op = "validatedFilter" /\ verdict = <<>>
    /\ verdict' = <<validatedFilter(subject.project, subject.board)>>
    /\ UNCHANGED <<args, pc, pVars, bVars, endVars, subject>>

ExpectGroups ==
    /\ subject.op = "projectGroups" /\ verdict = <<>>
    /\ verdict' = <<projectGroups(subject.clientCode)>>
    /\ UNCHANGED <<args, pc, pVars, bVars, endVars, subject>>

ExpectRoles ==
    /\ subject.op = "rolesForGroup" /\ verdict = <<>>
    /\ verdict' = <<rolesForGroup(subject.group)>>
    /\ UNCHANGED <<args, pc, pVars, bVars, endVars, subject>>

NextValidation ==
    \/ ValidateGroup
    \/ ValidateFilter
    \/ ExpectGroups
    \/ ExpectRoles

SpecValidation == InitValidation /\ [][NextValidation]_vars

(***************************************************************************)
(* withProgress on its own: the 'Fetching project' fetch of fetchProject   *)
(* (makeRequest, decode, mapLeft) and fetchFilter (makeRequest, decode),   *)
(* each run under a progress reporter that is drawn from what a            *)
(* ProgressReporter can do: each of start, success and fail returns, with  *)
(* whatever effect on the reporter's own display, or throws.  subject      *)
(* holds the reporter, the message and the call of the wrapped fetch,      *)
(* verdict how the promise of the task settled.                            *)
(***************************************************************************)
SinkBehaviours == [start : {"returns", "throws"}, success : {"returns", "throws"},
                   fail : {"returns", "throws"}]

\* What a reporter throws.
SinkError == ErrorObj("Error", "progress reporter failed", <<>>)

\* The wrapped fetches: the message of their progress and their remote call.
WrappedFetches ==
    {[message |-> "Fetching project", call |-> Call("getProject", "PK", 0)],
     [message |-> filterMessage(FilterId), call |-> filterCall(FilterId, 1)]}

InitProgress ==
    /\ args = [projectKey |-> "PK", clientCode |-> "acme", verbose |-> FALSE]
    /\ pc = "idle"
    /\ pStage = "idle" /\ pInflight = {} /\ pTrace = <<>> /\ pProject = <<>>
    /\ pRoles = <<>> /\ pDetails = <<>> /\ pResult = <<>>
    /\ bStage = "idle" /\ bInflight = {} /\ bTrace = <<>> /\ bSummaries = <<>>
    /\ bConfig = <<>> /\ bBoards = <<>> /\ bResult = <<>>
    /\ console = <<>> /\ result = <<>> /\ outcome = <<>>
    /\ \E sink \in SinkBehaviours, wrapped \in WrappedFetches :
          subject = [op |-> "withProgress", message |-> wrapped.message,
                     call |-> wrapped.call, sink |-> sink]
    /\ verdict = <<>>

\* The task is run: progressReporter.start(message) inside RTE.fromIO, whose
\* exception rejects the promise; when it returns, the wrapped fetch runs up
\* to its remote call.
WithProgressStarts ==
    /\ subject.op = "withProgress" /\ pStage = "idle"
    /\ IF subject.sink.start = "throws"
       THEN /\ pStage' = "done"
            /\ pTrace' = <<start(subject.message)>>
            /\ verdict' = <<rejected(SinkError)>>
            /\ UNCHANGED pInflight
       ELSE /\ pStage' = "wrapped"
            /\ pTrace' = <<start(subject.message), issue(subject.call)>>
            /\ pInflight' = {subject.call}
            /\ UNCHANGED verdict
    /\ UNCHANGED <<args, pc, pProject, pRoles, pDetails, pResult, bVars, endVars, subject>>

\* The wrapped fetch has resolved with wrapped: RT.chainFirstIOK calls
\* reporter.fail() on a Left and reporter.success() on a Right, whose
\* exception rejects the promise; when it returns, the task resolves with
\* wrapped.
WithProgressResolved(call, event, wrapped) ==
    /\ pStage' = "done"
    /\ pInflight' = pInflight \ {call}
    /\ pTrace' = pTrace \o <<event, IF isLeft(wrapped) THEN fail(subject.message)
                                     ELSE success(subject.message)>>
    /\ verdict' = IF isLeft(wrapped)
                  THEN (IF subject.sink.fail = "throws" THEN <<rejected(SinkError)>>
                        ELSE <<fulfilled(wrapped)>>)
                  ELSE (IF subject.sink.success = "throws" THEN <<rejected(SinkError)>>
                        ELSE <<fulfilled(wrapped)>>)

\* What the wrapped fetch makes of the decoded response: fetchProject
\* classifies the error, fetchFilter leaves it.
wrappedResult(event) ==
    IF event.call.op = "getProject"
    THEN mapLeft(event.result,
                 LAMBDA error : classifyProjectError(args.projectKey, error))
    ELSE event.result

WithProgressResponded(call, event) ==
    WithProgressResolved(call, event, wrappedResult(event))

\* The remote call of the wrapped fetch settles.
WithProgressSettled ==
    /\ subject.op = "withProgress" /\ pStage = "wrapped"
    /\ \E call \in pInflight :
          \/ /\ call.op = "getProject"
             /\ \E settled \in settlements(GetProjectValues, AllReasons) :
                   WithProgressResponded(call,
                                         settle(call, settled, makeRequest(settled),
                                                getProjectStep(args.projectKey,
                                                               makeRequest(settled))))
          \/ /\ call.op = "genericGet"
             /\ \E settled \in settlements(FilterValues(FilterId), FewReasons) :
                   WithProgressResponded(call,
                                         settle(call, settled, makeRequest(settled),
                                                filterStep(FilterId, makeRequest(settled))))
    /\ UNCHANGED <<args, pc, pProject, pRoles, pDetails, pResult, bVars, endVars, subject>>

NextProgress ==
    \/ WithProgressStarts
    \/ WithProgressSettled

SpecProgress == InitProgress /\ [][NextProgress]_vars

(***************************************************************************)
(* Properties of one invocation                                            *)
(***************************************************************************)
settledAt(trace) == {i \in DOMAIN trace : trace[i].ev = "settle"}
issuedAt(trace) == {i \in DOMAIN trace : trace[i].ev = "call"}

\* The not-found condition: an error envelope one of whose messages starts
\* with "No project could be found with".
notFoundCondition(error) ==
    /\ error.t = "json"
    /\ error.json.kind = "object" /\ error.json.emArray
    /\ \E k \in DOMAIN error.json.errorMessages :
          /\ error.json.errorMessages[k].kind = "string"
          /\ startsWith(error.json.errorMessages[k].s, "No project could be found with")

\* The get-project call failed with the not-found condition.
getProjectNotFound(event) ==
    event.call.op = "getProject" /\ isLeft(event.response)
    /\ notFoundCondition(event.response.left)

\* The get-project call or its decode failed with anything else.
getProjectOtherFailure(event) ==
    event.call.op = "getProject" /\ isLeft(event.result)
    /\ ~notFoundCondition(event.result.left)

\* The Error fetchProject makes of an envelope that is not the not-found one.
unknownProjectError(envelope) ==
    ErrorObj("Error", "Unknown error while retrieving project [" \o args.projectKey \o "].",
             <<ErrorObj("Error", JSONStringify(envelope), <<>>)>>)

\* C1: when the get-project call fails with an error envelope one of whose
\* messages starts with "No project could be found with", fetchProject ends
\* in success with Option none and no role fetch is issued.
C1_NotFoundIsAbsent ==
    \A i \in settledAt(pTrace) :
        getProjectNotFound(pTrace[i])
        => /\ pResult = <<right(none)>>
           /\ \A j \in issuedAt(pTrace) : pTrace[j].call.op # "genericGet"

\* The not-found message was the second of the envelope's two messages.
C1_Witness ==
    /\ pStage = "done" /\ pResult = <<right(none)>>
    /\ \E i \in settledAt(pTrace) :
          /\ getProjectNotFound(pTrace[i])
          /\ pTrace[i].response.left = JsonVal(JSecondNotFound)

\* C2 as stated: when the get-project call fails with anything other than the
\* not-found condition, fetchProject fails with that same error value,
\* unchanged, and the invocation fails carrying it.
C2_SameErrorUnchanged ==
    \A i \in settledAt(pTrace) :
        getProjectOtherFailure(pTrace[i])
        => /\ pResult = <<left(pTrace[i].result.left)>>
           /\ pc = "done" => /\ result = pResult
                             /\ outcome[1].threw
                             /\ outcome[1].error[1].cause = <<pResult[1].left>>

\* C2: when the get-project call fails with a generic failure or a decode
\* failure, fetchProject fails with that same error value, unchanged; when it
\* fails with an error envelope none of whose messages starts with the
\* not-found prefix, fetchProject fails with a new Error "Unknown error while
\* retrieving project [key]." whose cause is an Error of the envelope's JSON
\* text; either way the invocation fails carrying fetchProject's error.
C2_OtherErrorsPropagate ==
    \A i \in settledAt(pTrace) :
        getProjectOtherFailure(pTrace[i])
        => /\ pResult = <<left(IF pTrace[i].result.left.t = "json"
                                THEN unknownProjectError(pTrace[i].result.left)
                                ELSE pTrace[i].result.left)>>
           /\ pc = "done" => /\ result = pResult
                             /\ outcome[1].threw
                             /\ outcome[1].error[1].cause = <<pResult[1].left>>

\* The invocation is over and get-project had failed with an envelope that
\* only says "Internal server error".
C2_Witness ==
    /\ pc = "done"
    /\ \E i \in settledAt(pTrace) :
          /\ getProjectOtherFailure(pTrace[i])
          /\ pTrace[i].result.left = JsonVal(JInternal)

\* A call of the branch, or the decode of what it returned, ended in an error
\* that is not the not-found condition.
failedAt(trace, i) ==
    /\ trace[i].ev = "settle" /\ isLeft(trace[i].result)
    /\ ~notFoundCondition(trace[i].result.left)

noCallAfter(trace, i) == \A j \in issuedAt(trace) : j < i

\* C3 as stated, for one branch.
failsFastWithThatError(trace, ended) ==
    \A i \in DOMAIN trace :
        failedAt(trace, i)
        => /\ noCallAfter(trace, i)
           /\ ended = <<left(trace[i].result.left)>>

\* C3 as stated: once a call or decode of a branch ends in a non-not-found
\* error, no further call is issued in that branch and the branch's result is
\* that error.
C3_FailFastSameError ==
    /\ failsFastWithThatError(pTrace, pResult)
    /\ failsFastWithThatError(bTrace, bResult)

failsFast(trace, ended) ==
    \A i \in DOMAIN trace :
        failedAt(trace, i)
        => /\ noCallAfter(trace, i)
           /\ ended = <<left(IF trace[i].call.op = "getProject"
                                /\ trace[i].result.left.t = "json"
                             THEN unknownProjectError(trace[i].result.left)
                             ELSE trace[i].result.left)>>

\* C3: once a call or decode of a branch ends in a non-not-found error, no
\* further call is issued in that branch (role details i+1.., boards i+1.. are
\* never fetched) and the branch's result is that error, except that an error
\* envelope of the get-project call becomes the Error "Unknown error while
\* retrieving project [key]." that has the envelope's JSON text in its cause.
C3_FailFast ==
    /\ failsFast(pTrace, pResult)
    /\ failsFast(bTrace, bResult)

\* The first of two role details failed and the first of two boards failed.
C3_Witness ==
    /\ pStage = "done" /\ Len(pRoles) = 2 /\ Len(pDetails) = 0 /\ isLeft(pResult[1])
    /\ bStage = "done" /\ Len(bSummaries) = 2 /\ Len(bBoards) = 0 /\ isLeft(bResult[1])

\* C4: in every state at most one call of the project branch and at most one
\* call of the boards branch is in flight, so never more than two in all.
C4_OneInFlightPerBranch ==
    /\ Cardinality(pInflight) <= 1
    /\ Cardinality(bInflight) <= 1
    /\ Cardinality(pInflight \cup bInflight) <= 2

\* Two roles and two boards are being traversed, one call of each in flight.
C4_Witness ==
    /\ pStage = "details" /\ Len(pRoles) = 2 /\ Cardinality(pInflight) = 1
    /\ bStage \in {"configuration", "filter"} /\ Len(bSummaries) = 2
    /\ Cardinality(bInflight) = 1

\* A settle event of trace before position j that satisfies ok.
settledBefore(trace, j, ok(_)) ==
    \E i \in settledAt(trace) : i < j /\ isRight(trace[i].result) /\ ok(trace[i])

projectCallInOrder(j) ==
    IF pTrace[j].call.op # "genericGet" THEN pTrace[j].call.op = "getProject" /\ j = 2
    ELSE IF pTrace[j].call.arg = "/project/" \o args.projectKey \o "/roledetails"
    THEN settledBefore(pTrace, j, LAMBDA e : e.call.op = "getProject")
    ELSE settledBefore(pTrace, j,
            LAMBDA e :
                /\ e.call.arg = "/project/" \o args.projectKey \o "/roledetails"
                /\ \E k \in DOMAIN e.result.right.items :
                      pTrace[j].call.arg = "/project/" \o args.projectKey \o "/role/"
                                           \o ToString(e.result.right.items[k].id))

boardsCallInOrder(j) ==
    IF bTrace[j].call.op = "getAllBoards" THEN j = 2
    ELSE IF bTrace[j].call.op = "getConfiguration"
    THEN settledBefore(bTrace, j,
            LAMBDA e :
                /\ e.call.op = "getAllBoards"
                /\ \E k \in DOMAIN e.result.right.values :
                      bTrace[j].call.arg = ToString(e.result.right.values[k].id))
    ELSE settledBefore(bTrace, j,
            LAMBDA e :
                /\ e.call.op = "getConfiguration" /\ e.call.item = bTrace[j].call.item
                /\ e.result.right.filter.id # <<>>
                /\ bTrace[j].call.arg = "/filter/" \o e.result.right.filter.id[1])

\* C5: the role-summary call is issued only after get-project succeeded and
\* decoded; a role-detail call only after the role summaries succeeded and
\* decoded, and for a role id of that list; a board-configuration call only
\* after the board list is known; a filter call only after that board's
\* configuration succeeded and carried a filter id.
C5_DependentCallsInOrder ==
    /\ \A j \in issuedAt(pTrace) : projectCallInOrder(j)
    /\ \A j \in issuedAt(bTrace) : boardsCallInOrder(j)

\* The boards branch has fetched two boards, a filter among its calls, while
\* get-project is still in flight.
C5_Witness ==
    /\ pStage = "project" /\ bStage = "done" /\ Len(bBoards) = 2
    /\ \E j \in issuedAt(bTrace) : bTrace[j].call.op = "genericGet"

\* The project lookup was recovered to absent and the boards branch succeeded.
absentWithBoards ==
    pc = "done" /\ pResult = <<right(none)>> /\ isRight(bResult[1])

\* C6: when the project lookup is recovered to absent and the boards branch
\* succeeds, every listed board is fetched, the invocation's result is the
\* pair (absent, board list), and no group or board validation is evaluated:
\* the one thing reported is the warning that the project does not exist.
C6_AbsentProjectKeepsBoards ==
    absentWithBoards
    => /\ Len(bResult[1].right) = Len(bSummaries)
       /\ \A k \in DOMAIN bSummaries :
             \E j \in issuedAt(bTrace) :
                 /\ bTrace[j].call.op = "getConfiguration"
                 /\ bTrace[j].call.arg = ToString(bSummaries[k].id)
       /\ result = <<right(<<none, bResult[1].right>>)>>
       /\ Len(console) = 1 /\ console[1].level = "warn" /\ console[1].kind = "absent"

\* Absent project, two boards fetched, verbose asked for.
C6_Witness ==
    absentWithBoards /\ Len(bResult[1].right) = 2 /\ args.verbose

\* No call of trace is issued twice, every settlement is that of the one call
\* issued for it, and no call settles twice.
calledOnce(trace) ==
    /\ \A i, j \in issuedAt(trace) : trace[i].call = trace[j].call => i = j
    /\ \A i, j \in settledAt(trace) : trace[i].call = trace[j].call => i = j
    /\ \A i \in settledAt(trace) :
          Cardinality({j \in issuedAt(trace) : j < i /\ trace[j].call = trace[i].call}) = 1

\* C7: an invocation of makeRequest performs one outbound call and nothing is
\* retried: a call that returned an error is never issued again and no
\* logical operation is called more than once.
C7_NoRetries ==
    /\ calledOnce(pTrace)
    /\ calledOnce(bTrace)
    /\ Cardinality(issuedAt(pTrace)) = Cardinality(settledAt(pTrace)) + Cardinality(pInflight)
    /\ Cardinality(issuedAt(bTrace)) = Cardinality(settledAt(bTrace)) + Cardinality(bInflight)
    /\ \A i \in issuedAt(pTrace), j \in issuedAt(bTrace) : pTrace[i].call # bTrace[j].call

\* Both branches ran to their end over two roles and two boards, and the
\* invocation is over.
C7_Witness ==
    /\ pc = "done"
    /\ Len(pRoles) = 2 /\ Len(pDetails) = 2
    /\ Len(bSummaries) = 2 /\ Len(bBoards) = 2
    /\ \E j \in issuedAt(bTrace) : bTrace[j].call.op = "genericGet"

\* The call failed with an Error whose message parses as JSON of the shape
\* {errorMessages: string[]}.
failedWithEnvelope(settled) ==
    /\ ~settled.fulfilled
    /\ settled.reason.t = "Error"
    /\ isRight(JSONParse(settled.reason.message))
    /\ JiraErrorResponseShape(JSONParse(settled.reason.message).right)

genericFailureOf(cause) == ErrorObj("Error", "Failed when invoking Jira API.", cause)

\* C8 as stated, for one settled call.
classifiedKeepingOriginal(event) ==
    IF event.settled.fulfilled THEN event.response = right(event.settled.value)
    ELSE IF failedWithEnvelope(event.settled)
    THEN event.response = left(JsonVal(JSONParse(event.settled.reason.message).right))
    ELSE event.response = left(genericFailureOf(<<event.settled.reason>>))

\* C8 as stated: an Error whose message is JSON of the envelope's shape comes
\* back as that envelope; every other failure comes back as the generic
\* failure whose cause is the original error; a success comes back as the raw
\* payload.
C8_CauseIsOriginal ==
    /\ \A i \in settledAt(pTrace) : classifiedKeepingOriginal(pTrace[i])
    /\ \A i \in settledAt(bTrace) : classifiedKeepingOriginal(bTrace[i])

\* The cause the generic failure has for a thrown value.
causeOfThrown(reason) ==
    IF reason.t = "Error" THEN <<reason>>
    ELSE IF reason.t = "string" THEN <<ErrorObj("Error", reason.value, <<>>)>>
    ELSE IF reason.t = "undefined" THEN <<>>
    ELSE <<ErrorObj("Error", JSONStringify(reason), <<>>)>>

classified(event) ==
    IF event.settled.fulfilled THEN event.response = right(event.settled.value)
    ELSE IF failedWithEnvelope(event.settled)
    THEN /\ event.response = left(JsonVal(JSONParse(event.settled.reason.message).right))
         /\ errorMessagesOf(event.response.left)
            = [k \in DOMAIN JSONParse(event.settled.reason.message).right.errorMessages |->
                  JSONParse(event.settled.reason.message).right.errorMessages[k].s]
    ELSE event.response = left(genericFailureOf(causeOfThrown(event.settled.reason)))

\* C8: an Error whose message is JSON of the envelope's shape comes back as
\* that envelope with its messages; every other failure comes back as the
\* generic failure "Failed when invoking Jira API.", whose cause is the thrown
\* value when that is an Error, an Error of the string when a string was
\* thrown, an Error of the JSON text of any other value, and no cause when
\* undefined was thrown; a success comes back as the raw payload.
C8_AdapterClassification ==
    /\ \A i \in settledAt(pTrace) : classified(pTrace[i])
    /\ \A i \in settledAt(bTrace) : classified(bTrace[i])

\* The get-project call failed with a thrown string that is the JSON text of a
\* not-found envelope, and the list-boards call with an Error of an envelope's
\* text.
C8_Witness ==
    /\ \E i \in settledAt(pTrace) :
          /\ ~pTrace[i].settled.fulfilled
          /\ pTrace[i].settled.reason = StringVal(JsonTexts[1].text)
    /\ \E i \in settledAt(bTrace) : failedWithEnvelope(bTrace[i].settled)

\* The combined fetch ended in an error that was not recovered.
unrecoveredError == isLeft(pResult[1]) \/ isLeft(bResult[1])

failureOf(cause) ==
    <<ErrorObj("Error", "Failed to get project [" \o args.projectKey \o "].", cause)>>

\* C9 as stated: the command fails exactly when the combined fetch ended in an
\* unrecovered error, with the one Error "Failed to get project [key]." whose
\* cause is that error; absent with boards fetched is no failure.
C9_CauseIsThatError ==
    pc = "done"
    => /\ outcome[1].threw <=> unrecoveredError
       /\ unrecoveredError
          => /\ result[1].left \in {r[1].left : r \in {r \in {pResult, bResult} : isLeft(r[1])}}
             /\ outcome[1].error = failureOf(<<result[1].left>>)
       /\ absentWithBoards => ~outcome[1].threw

\* C9: the command fails exactly when the combined fetch ended in an
\* unrecovered error, with the one Error "Failed to get project [key]." whose
\* cause is that error when it is an Error and, when it is a bare error
\* envelope, an Error of the envelope's JSON text; absent with boards fetched
\* is no failure.
C9_FailureAtBoundary ==
    pc = "done"
    => /\ outcome[1].threw <=> unrecoveredError
       /\ unrecoveredError
          => /\ result[1].left \in {r[1].left : r \in {r \in {pResult, bResult} : isLeft(r[1])}}
             /\ outcome[1].error
                = failureOf(IF result[1].left.t = "Error" THEN <<result[1].left>>
                            ELSE <<ErrorObj("Error", JSONStringify(result[1].left), <<>>)>>)
       /\ absentWithBoards => ~outcome[1].threw

\* The command failed on a bare envelope that a call of the boards branch
\* had failed with.
C9_Witness ==
    /\ pc = "done" /\ outcome[1].threw
    /\ isRight(pResult[1]) /\ result[1].left.t = "json"

\* fetchProject has produced a Project.
projectProduced == pResult # <<>> /\ isRight(pResult[1]) /\ pResult[1].right.tag = "Some"

hasGroupActor(role) == \E a \in DOMAIN role.actors : role.actors[a].actorGroup # <<>>

RECURSIVE groupsOfActors(_)
groupsOfActors(actors) ==
    IF Len(actors) = 0 THEN <<>>
    ELSE actors[1].actorGroup \o groupsOfActors(Tail(actors))

\* C16 as stated: every role the role-detail fetches returned appears in the
\* Project's groupRoles, one with no group-backed actor with an empty group
\* list.
C16_EveryRoleAppears ==
    projectProduced
    => \A k \in DOMAIN pDetails :
          \E i \in DOMAIN pResult[1].right.value.groupRoles :
              /\ pResult[1].right.value.groupRoles[i].role = pDetails[k].name
              /\ ~hasGroupActor(pDetails[k])
                 => pResult[1].right.value.groupRoles[i].groups = <<>>

\* groupRoles has entry i for role detail k.
entryOfRole(groupRoles, i, k) ==
    /\ groupRoles[i].role = pDetails[k].name
    /\ groupRoles[i].groups = groupsOfActors(pDetails[k].actors)

\* C16: every role the role-detail fetches returned that has a group-backed
\* actor appears in the Project's groupRoles, in the order fetched, with the
\* groups of its group-backed actors; a role with no group-backed actor does
\* not appear.
C16_RolesWithGroupsAppear ==
    projectProduced
    => /\ \A k \in DOMAIN pDetails :
             IF hasGroupActor(pDetails[k])
             THEN \E i \in DOMAIN pResult[1].right.value.groupRoles :
                      entryOfRole(pResult[1].right.value.groupRoles, i, k)
             ELSE \A i \in DOMAIN pResult[1].right.value.groupRoles :
                      pResult[1].right.value.groupRoles[i].role # pDetails[k].name
       /\ \A i, j \in DOMAIN pResult[1].right.value.groupRoles :
             i < j
             => \E k, l \in DOMAIN pDetails :
                   /\ k < l
                   /\ entryOfRole(pResult[1].right.value.groupRoles, i, k)
                   /\ entryOfRole(pResult[1].right.value.groupRoles, j, l)

\* Two roles were fetched, the first with no group-backed actor, the second
\* with two.
C16_Witness ==
    /\ projectProduced /\ Len(pDetails) = 2
    /\ ~hasGroupActor(pDetails[1])
    /\ Len(groupsOfActors(pDetails[2].actors)) = 2

\* C17: in every Project fetchProject produces, every entry of groupRoles has
\* a non-empty groups list.
C17_GroupsNonEmpty ==
    projectProduced
    => \A i \in DOMAIN pResult[1].right.value.groupRoles :
          Len(pResult[1].right.value.groupRoles[i].groups) > 0

\* A Project with an entry in groupRoles, made of two roles of which one has
\* no group-backed actor.
C17_Witness ==
    /\ projectProduced /\ Len(pDetails) = 2
    /\ Len(pResult[1].right.value.groupRoles) = 1
    /\ \E k \in DOMAIN pDetails : ~hasGroupActor(pDetails[k])

\* The call at position i returned a payload that did not decode.
decodeFailedAt(trace, i) ==
    trace[i].ev = "settle" /\ isRight(trace[i].response) /\ isLeft(trace[i].result)

\* The call at position i failed with the generic failure of makeRequest.
transportFailedAt(trace, i) ==
    /\ trace[i].ev = "settle" /\ isLeft(trace[i].response)
    /\ trace[i].response.left.t = "Error"
    /\ trace[i].response.left.message = "Failed when invoking Jira API."

\* The error of position i is the result of the branch, no call of the branch
\* follows it, and the invocation, once over, has failed.
propagated(trace, ended, i) ==
    /\ ended = <<left(trace[i].result.left)>>
    /\ noCallAfter(trace, i)
    /\ pc = "done" => outcome[1].threw

\* C18: a decode failure of any response is propagated exactly like a
\* transport failure of the same call: it is not recovered, it aborts the
\* remaining calls of the branch, and the invocation ends in failure.
C18_DecodeFailurePropagates ==
    /\ \A i \in DOMAIN pTrace :
          (decodeFailedAt(pTrace, i) \/ transportFailedAt(pTrace, i))
          => propagated(pTrace, pResult, i)
    /\ \A i \in DOMAIN bTrace :
          (decodeFailedAt(bTrace, i) \/ transportFailedAt(bTrace, i))
          => propagated(bTrace, bResult, i)

\* The get-project response did not decode, the configuration of the first of
\* two boards did not either, and the invocation is over.
C18_Witness ==
    /\ pc = "done"
    /\ \E i \in DOMAIN pTrace : decodeFailedAt(pTrace, i) /\ pTrace[i].call.op = "getProject"
    /\ \E i \in DOMAIN bTrace : decodeFailedAt(bTrace, i)
                                /\ bTrace[i].call.op = "getConfiguration"
    /\ Len(bSummaries) = 2 /\ Len(bBoards) = 0

\* The invocation is over, both fetches succeeded and the project is present.
fetchedPresentProject ==
    /\ pc = "done" /\ isRight(result[1])
    /\ result[1].right[1].tag = "Some"

\* A success, or a failure with reasons.
isOutcome(validated) == isRight(validated) \/ Len(validated.left) > 0

\* The one thing reported is a summary with exactly one outcome for each of
\* the three expected groups and one for each returned board.
completeReport ==
    /\ Len(console) = 1
    /\ console[1].kind = "summary"
    /\ Len(console[1].groups) = 3
    /\ console[1].groups[1].group = args.clientCode \o "-developers"
    /\ console[1].groups[2].group = args.clientCode \o "-business"
    /\ console[1].groups[3].group = args.clientCode \o "-administrators"
    /\ \A i \in DOMAIN console[1].groups : isOutcome(console[1].groups[i].validated)
    /\ Len(console[1].boards) = Len(bSummaries)
    /\ \A k \in DOMAIN bSummaries :
          /\ console[1].boards[k].name = bSummaries[k].name
          /\ isOutcome(console[1].boards[k].validated)

\* C14 as stated: whenever the fetch succeeds with a present project the
\* report has one outcome per expected group and per returned board, and the
\* invocation does not fail.
C14_ReportAlwaysComplete ==
    fetchedPresentProject => completeReport /\ ~outcome[1].threw

\* C14: whenever the fetch succeeds with a present project, the invocation
\* does not fail whatever the validation finds; without the verbose flag the
\* report has exactly one outcome for each of the three expected groups and
\* one for each returned board; with it the report is the board list alone,
\* with no validation outcome.
C14_ReportCompleteUnlessVerbose ==
    fetchedPresentProject
    => /\ ~outcome[1].threw
       /\ ~args.verbose => completeReport
       /\ args.verbose
          => /\ Len(console) = 1 /\ console[1].kind = "json"
             /\ console[1].boards = result[1].right[2]

\* A report where every rule fails: no expected group is bound to a role and
\* neither of the two boards has a filter.
C14_Witness ==
    /\ fetchedPresentProject /\ ~args.verbose /\ ~outcome[1].threw
    /\ Len(console) = 1 /\ console[1].kind = "summary"
    /\ Len(console[1].boards) = 2
    /\ \A i \in DOMAIN console[1].groups : isLeft(console[1].groups[i].validated)
    /\ \A k \in DOMAIN console[1].boards : isLeft(console[1].boards[k].validated)

\* The progress handles of a trace, read event by event: open holds the
\* handles started and not resolved, innermost last, each with whether a
\* call it encloses has ended in an error; pending counts the calls issued
\* and not settled; ok tells that no event so far broke the bracketing.
NoProgress == [ok |-> TRUE, open |-> <<>>, pending |-> 0]

resolvedHandle(st, message, failed) ==
    IF /\ Len(st.open) > 0
       /\ st.pending = 0
       /\ st.open[Len(st.open)].message = message
       /\ st.open[Len(st.open)].failed = failed
    THEN [st EXCEPT !.open = SubSeq(st.open, 1, Len(st.open) - 1)]
    ELSE [st EXCEPT !.ok = FALSE]

settledCall(st, failed) ==
    IF Len(st.open) > 0 /\ st.pending > 0
    THEN [st EXCEPT !.pending = st.pending - 1,
                    !.open = [k \in DOMAIN st.open |->
                                 [st.open[k] EXCEPT !.failed = st.open[k].failed \/ failed]]]
    ELSE [st EXCEPT !.ok = FALSE]

progressStep(st, event) ==
    IF ~st.ok THEN st
    ELSE IF event.ev = "start"
    THEN [st EXCEPT !.open = Append(st.open, [message |-> event.message, failed |-> FALSE])]
    ELSE IF event.ev = "call"
    THEN (IF Len(st.open) > 0 THEN [st EXCEPT !.pending = st.pending + 1]
          ELSE [st EXCEPT !.ok = FALSE])
    ELSE IF event.ev = "settle" THEN settledCall(st, isLeft(event.result))
    ELSE resolvedHandle(st, event.message, event.ev = "fail")

RECURSIVE progressOf(_, _, _)
progressOf(trace, i, st) ==
    IF i > Len(trace) THEN st
    ELSE progressOf(trace, i + 1, progressStep(st, trace[i]))

\* Every call of the trace is issued and settled inside an open handle, every
\* success() and fail() resolves the innermost open handle, after its calls
\* have settled, success() when none of them failed and fail() when one did;
\* once the branch has ended no handle is left open.
bracketed(trace, ended) ==
    /\ progressOf(trace, 1, NoProgress).ok
    /\ ended # <<>> => progressOf(trace, 1, NoProgress).open = <<>>

\* C15: every remote call is issued after start(message) of an enclosing
\* progress handle and before that handle is resolved; after the wrapped
\* fetch resolves exactly one of success() and fail() is called, once, on
\* that handle: success() if and only if the wrapped fetch succeeded, fail()
\* if and only if it ended in an error.
C15_ProgressBracketsFetches ==
    bracketed(pTrace, pResult) /\ bracketed(bTrace, bResult)

\* The second role detail failed inside the handle of the role fetches, after
\* the first succeeded; the first board was built with its filter and the
\* filter of the second failed, inside the handle of its board, itself inside
\* the handle of the boards.
C15_Witness ==
    /\ pc = "done"
    /\ Cardinality({i \in DOMAIN pTrace : pTrace[i].ev = "fail"}) = 2
    /\ Cardinality({i \in DOMAIN pTrace : pTrace[i].ev = "success"}) = 2
    /\ Cardinality({i \in DOMAIN bTrace : bTrace[i].ev = "success"}) = 2
    /\ Cardinality({i \in DOMAIN bTrace : bTrace[i].ev = "fail"}) = 3

\* sub occurs in s.
contains(s, sub) ==
    \E i \in 1..(Len(s) - Len(sub) + 1) : SubSeq(s, i, i + Len(sub) - 1) = sub

\* The codec the response of call is decoded with.
codecOfCall(call) ==
    CASE call.op = "getProject" -> JiraProject
      [] call.op = "getAllBoards" -> BoardSummaryResponse
      [] call.op = "getConfiguration" -> BoardConfiguration
      [] OTHER -> IF startsWith(call.arg, "/filter/") THEN FilterConfiguration
                  ELSE IF endsWith(call.arg, "/roledetails") THEN JiraProjectRoles
                  ELSE JiraProjectRoleDetails

\* What the call is about: the project key, the board id, the filter id, or
\* the path of the roles.
contextOfCall(call) ==
    IF call.op = "genericGet" /\ startsWith(call.arg, "/filter/")
    THEN SubSeq(call.arg, Len("/filter/") + 1, Len(call.arg))
    ELSE call.arg

\* The calls whose decode message embeds the JSON text of the payload.
embedsPayload(call) ==
    call.op # "genericGet" \/ startsWith(call.arg, "/filter/")

\* Where the payload departs from the codec: the paths of the missing fields,
\* or the codec's type when the payload is not of its kind at all.
violationsOf(codec, payload) ==
    IF codec.array
    THEN (IF payload.kind = "array"
          THEN {ToString(i - 1) \o "/" \o codec.required[k] :
                    <<i, k>> \in {ik \in (DOMAIN payload.items) \X (DOMAIN codec.required) :
                                     ~includes(payload.items[ik[1]].keys,
                                               codec.required[ik[2]])}}
          ELSE {"ReadonlyArray"})
    ELSE (IF payload.kind = "object"
          THEN {codec.required[k] :
                    k \in {j \in DOMAIN codec.required :
                              ~includes(payload.keys, codec.required[j])}}
          ELSE {"Readonly"})

\* errors holds one entry for every violation, and nothing else.
holdsEveryViolation(errors, violations) ==
    /\ Len(errors) = Cardinality(violations)
    /\ \A v \in violations : \E k \in DOMAIN errors : endsWith(errors[k], " : " \o v)

\* The error of the decode failure at position i is one AggregateError whose
\* detail list holds every violation and whose message has the context.
aggregatedAt(trace, i) ==
    /\ trace[i].result.left.cls = "AggregateError"
    /\ holdsEveryViolation(trace[i].result.left.errors,
                           violationsOf(codecOfCall(trace[i].call), trace[i].response.right))
    /\ contains(trace[i].result.left.message, "[" \o contextOfCall(trace[i].call) \o "]")

\* The message names every field the payload lacks.
messageListsViolations(trace, i) ==
    \A v \in violationsOf(codecOfCall(trace[i].call), trace[i].response.right) :
        contains(trace[i].result.left.message, v)

\* The message holds none of the entries of the detail list.
messageOmitsViolations(trace, i) ==
    \A k \in DOMAIN trace[i].result.left.errors :
        ~contains(trace[i].result.left.message, trace[i].result.left.errors[k])

\* The board-configuration response at position i lacks `type`.
configurationLacksType(trace, i) ==
    /\ decodeFailedAt(trace, i)
    /\ trace[i].call.op = "getConfiguration"
    /\ ~includes(trace[i].response.right.keys, "type")

\* C19 as stated: a decode failure is one aggregated error whose detail list
\* holds every violation and whose message has the operation context and
\* lists the violation; for a board configuration lacking `type` the message
\* lists that field and embeds the board's id.
C19_MessageListsViolations ==
    /\ \A i \in DOMAIN pTrace :
          decodeFailedAt(pTrace, i)
          => aggregatedAt(pTrace, i) /\ messageListsViolations(pTrace, i)
    /\ \A i \in DOMAIN bTrace :
          decodeFailedAt(bTrace, i)
          => aggregatedAt(bTrace, i) /\ messageListsViolations(bTrace, i)

\* The message of the decode failure at position i is the operation context
\* and, but for the role calls, the JSON text of the payload; the violations
\* are in the detail list only.
contextAndPayloadAt(trace, i) ==
    /\ aggregatedAt(trace, i)
    /\ messageOmitsViolations(trace, i)
    /\ embedsPayload(trace[i].call)
       => contains(trace[i].result.left.message,
                   "[" \o JSONStringify(trace[i].response.right) \o "]")

\* C19: a decode failure is one aggregated error whose detail list holds
\* every violation of the payload; its message has the operation context and,
\* but for the role calls, the JSON text of the payload, and lists no
\* violation; a board configuration lacking `type` aborts the pipeline with
\* such an error, whose detail list (not its message) names `type` and whose
\* message embeds the board's id.
C19_AggregatedDecodeError ==
    /\ \A i \in DOMAIN pTrace : decodeFailedAt(pTrace, i) => contextAndPayloadAt(pTrace, i)
    /\ \A i \in DOMAIN bTrace :
          /\ decodeFailedAt(bTrace, i) => contextAndPayloadAt(bTrace, i)
          /\ configurationLacksType(bTrace, i)
             => /\ bTrace[i].result.left.errors
                      = <<"Invalid value undefined supplied to : type">>
                /\ contains(bTrace[i].result.left.message,
                            "[" \o ToString(bSummaries[bTrace[i].call.item].id) \o "]")
                /\ bResult = <<left(bTrace[i].result.left)>>
                /\ pc = "done" => outcome[1].threw

\* The configuration of the second board lacks `type`, the project payload
\* lacks three fields, and the invocation is over.
C19_Witness ==
    /\ pc = "done"
    /\ \E i \in DOMAIN bTrace : configurationLacksType(bTrace, i) /\ bTrace[i].call.item = 2
    /\ \E i \in DOMAIN pTrace :
          decodeFailedAt(pTrace, i) /\ Len(pTrace[i].result.left.errors) = 3

\* The positions in pDetails of the roles that have a group-backed actor.
keptRoles == {k \in DOMAIN pDetails : hasGroupActor(pDetails[k])}

\* The i-th of them, in the order of the role-summary list.
keptRole(i) == CHOOSE k \in keptRoles : Cardinality({j \in keptRoles : j <= k}) = i

\* C23: for every role kept in groupRoles, its groups are exactly the groups
\* of the role's group-backed actors, in response order, and its role name is
\* the role's name; user-backed actors contribute nothing; groupRoles keeps
\* the order of the role-summary list.
C23_GroupRolesAssembly ==
    projectProduced
    => /\ Len(pDetails) = Len(pRoles)
       /\ \A k \in DOMAIN pDetails : pDetails[k].id = pRoles[k].id
       /\ Len(pResult[1].right.value.groupRoles) = Cardinality(keptRoles)
       /\ \A i \in DOMAIN pResult[1].right.value.groupRoles :
             /\ pResult[1].right.value.groupRoles[i].role = pDetails[keptRole(i)].name
             /\ pResult[1].right.value.groupRoles[i].groups
                   = groupsOfActors(pDetails[keptRole(i)].actors)
             /\ Len(pResult[1].right.value.groupRoles[i].groups)
                   = Cardinality({a \in DOMAIN pDetails[keptRole(i)].actors :
                                     pDetails[keptRole(i)].actors[a].actorUser = <<>>})

\* Two roles are kept: the first has a user and a group, the second two
\* groups.
C23_Witness ==
    /\ projectProduced
    /\ Len(pResult[1].right.value.groupRoles) = 2
    /\ Len(pDetails[1].actors) = 2
    /\ Len(pResult[1].right.value.groupRoles[1].groups) = 1
    /\ Len(pResult[1].right.value.groupRoles[2].groups) = 2

\* A role call (the role summaries or a role detail) failed with the
\* not-found envelope.
roleCallNotFound(event) ==
    /\ event.ev = "settle" /\ event.call.op = "genericGet"
    /\ isLeft(event.response) /\ notFoundCondition(event.response.left)

\* C24: the not-found recovery applies to the get-project call only: when the
\* role-summary call or a role-detail call fails with an envelope one of
\* whose messages starts with "No project could be found with", the error is
\* not recovered to absent, and the project branch and the invocation fail.
C24_NotFoundOnlyAtGetProject ==
    \A i \in DOMAIN pTrace :
        roleCallNotFound(pTrace[i])
        => /\ pResult = <<left(pTrace[i].response.left)>>
           /\ noCallAfter(pTrace, i)
           /\ pc = "done" => (isLeft(result[1]) /\ outcome[1].threw /\ console = <<>>)

\* The second role detail failed with the not-found envelope, the boards
\* branch succeeded, and the invocation is over.
C24_Witness ==
    /\ pc = "done" /\ isRight(bResult[1])
    /\ \E i \in DOMAIN pTrace : roleCallNotFound(pTrace[i]) /\ pTrace[i].call.item = 2

\* C26: when the get-project call ends in the not-found condition, the
\* 'Fetching project' handle is resolved with fail() and not success(),
\* although fetchProject then succeeds with absent; no 'Fetching project roles'
\* progress is ever started.
C26_NotFoundResolvesWithFail ==
    \A i \in settledAt(pTrace) :
        getProjectNotFound(pTrace[i])
        => /\ Len(pTrace) = i + 1
           /\ pTrace[i + 1] = [ev |-> "fail", message |-> "Fetching project"]
           /\ \A j \in DOMAIN pTrace :
                 /\ pTrace[j].ev = "success" => pTrace[j].message # "Fetching project"
                 /\ pTrace[j].ev = "start" => pTrace[j].message = "Fetching project"
           /\ pResult = <<right(none)>>

\* The get-project call ended in the not-found condition and the invocation
\* ended in success.
C26_Witness ==
    /\ pc = "done" /\ ~outcome[1].threw
    /\ \E i \in settledAt(pTrace) : getProjectNotFound(pTrace[i])

\* The settle event of the configuration call for board k.
configurationOf(k) ==
    CHOOSE i \in settledAt(bTrace) :
        bTrace[i].call.op = "getConfiguration" /\ bTrace[i].call.item = k

\* The configuration of board k was fetched and decoded.
configurationFetched(k) ==
    \E i \in settledAt(bTrace) :
        /\ bTrace[i].call.op = "getConfiguration" /\ bTrace[i].call.item = k
        /\ isRight(bTrace[i].result)

\* A filter call failed, in transport or in decode.
filterFailedAt(i) ==
    /\ bTrace[i].ev = "settle" /\ bTrace[i].call.op = "genericGet"
    /\ isLeft(bTrace[i].result)

\* C27: in every board list fetchProjectBoards returns, a board has no filter
\* if and only if its configuration carried no filter id; a failing filter
\* fetch fails the boards branch, so that a board whose configuration has a
\* filter id is never reported as 'Project board does not have a filter.'.
C27_FilterAbsentIffNoFilterId ==
    /\ \A i \in DOMAIN bTrace :
          filterFailedAt(i) => bResult = <<left(bTrace[i].result.left)>>
    /\ (bResult # <<>> /\ isRight(bResult[1]))
       => \A k \in DOMAIN bResult[1].right :
             /\ configurationFetched(k)
             /\ Len(bResult[1].right[k].filter) = 0
                <=> Len(bTrace[configurationOf(k)].response.right.filter.id) = 0
    /\ (Len(console) = 1 /\ console[1].kind = "summary")
       => \A k \in DOMAIN console[1].boards :
             Len(bTrace[configurationOf(k)].response.right.filter.id) # 0
             => console[1].boards[k].validated
                   # left(<<"Project board does not have a filter.">>)

\* The first board was built with no filter id; the filter of the second
\* failed to be fetched.
C27_Witness ==
    /\ bResult # <<>> /\ isLeft(bResult[1])
    /\ Len(bBoards) = 1 /\ Len(bBoards[1].filter) = 0
    /\ \E i \in DOMAIN bTrace : filterFailedAt(i) /\ bTrace[i].call.item = 2

\* The list-boards call was answered with a response that decoded.
boardsListed(i) ==
    /\ bTrace[i].ev = "settle" /\ bTrace[i].call.op = "getAllBoards"
    /\ isRight(bTrace[i].result)

\* C28: when the boards branch succeeds, the board list has exactly one entry
\* for each board summary of the list-boards response, in the same order,
\* each with the id, name and type of that board's configuration response.
C28_OneBoardPerSummary ==
    (bResult # <<>> /\ isRight(bResult[1]))
    => \E i \in DOMAIN bTrace :
          /\ boardsListed(i)
          /\ Len(bResult[1].right) = Len(bTrace[i].response.right.values)
          /\ \A k \in DOMAIN bResult[1].right :
                /\ configurationFetched(k)
                /\ bTrace[configurationOf(k)].call.arg
                      = ToString(bTrace[i].response.right.values[k].id)
                /\ bResult[1].right[k].id = bTrace[configurationOf(k)].response.right.id
                /\ bResult[1].right[k].name = bTrace[configurationOf(k)].response.right.name
                /\ bResult[1].right[k].type = bTrace[configurationOf(k)].response.right.type

\* Two boards were listed and both were built.
C28_Witness ==
    /\ bResult # <<>> /\ isRight(bResult[1])
    /\ Len(bResult[1].right) = 2
    /\ bResult[1].right[1].id # bResult[1].right[2].id

\* A step of fetchProject, a step of fetchProjectBoards.
projectBranchStep == GetProjectSettled \/ RoleSummariesSettled \/ RoleDetailsSettled
boardsBranchStep == BoardsSettled \/ BoardConfigurationSettled \/ FilterSettled

\* C25: the combined result is produced only after both branches have
\* finished; an error in one branch does not stop the other from issuing its
\* remaining calls; the invocation fails if either branch fails, also when
\* the project is absent and the boards branch fails; when both fail the
\* error reported is the project branch's, whichever failed first.
C25_BranchesJoined ==
    /\ (pResult = <<>> \/ bResult = <<>>)
       => (result = <<>> /\ outcome = <<>> /\ ~ENABLED Complete)
    /\ (pc = "running" /\ pResult = <<>>) => ENABLED projectBranchStep
    /\ (pc = "running" /\ bResult = <<>>) => ENABLED boardsBranchStep
    /\ pc = "done"
       => /\ outcome[1].threw <=> (isLeft(pResult[1]) \/ isLeft(bResult[1]))
          /\ isLeft(pResult[1]) => result = <<left(pResult[1].left)>>
          /\ (isRight(pResult[1]) /\ isLeft(bResult[1]))
             => result = <<left(bResult[1].left)>>

\* Both branches failed, with different errors, the project branch at its
\* second role detail and the boards branch at the filter of its second
\* board.
C25_Witness ==
    /\ pc = "done" /\ isLeft(pResult[1]) /\ isLeft(bResult[1])
    /\ pResult[1].left # bResult[1].left
    /\ Len(pDetails) = 1 /\ Len(pRoles) = 2
    /\ Len(bBoards) = 1 /\ bStage = "done" /\ bConfig # <<>>

\* The outcomes the invocation has ended in, of the three there are.
outcomesReached ==
    {o \in {"present", "absent", "failure"} :
        \/ /\ o = "present" /\ isRight(result[1]) /\ ~outcome[1].threw
           /\ result[1].right[1].tag = "Some"
        \/ /\ o = "absent" /\ isRight(result[1]) /\ ~outcome[1].threw
           /\ result[1].right[1].tag = "None"
        \/ o = "failure" /\ isLeft(result[1]) /\ outcome[1].threw}

\* The invocation is over in exactly one outcome, no call is in flight and
\* every progress handle started has been resolved.
terminated ==
    /\ pc = "done"
    /\ Len(result) = 1 /\ Len(outcome) = 1
    /\ Cardinality(outcomesReached) = 1
    /\ pInflight = {} /\ bInflight = {}
    /\ progressOf(pTrace, 1, NoProgress) = NoProgress
    /\ progressOf(bTrace, 1, NoProgress) = NoProgress

\* C29: when every issued call eventually returns a response or an error,
\* every invocation eventually terminates in exactly one of (present project,
\* boards), (absent, boards) and failure; at termination no remote call is in
\* flight and every started progress handle has been resolved.
C29_Terminates ==
    /\ <>[]terminated
    /\ [](pc = "done" => terminated)

\* The invocation ended in failure after every call of both branches was
\* made: the last role detail and the last filter failed.
C29_Witness ==
    /\ terminated /\ outcomesReached = {"failure"}
    /\ Len(pRoles) = 2 /\ Len(pDetails) = 1
    /\ Len(bSummaries) = 2 /\ Len(bBoards) = 1
    /\ Cardinality(issuedAt(pTrace)) = 4
    /\ Cardinality(issuedAt(bTrace)) = 5

(***************************************************************************)
(* Properties of withProgress                                              *)
(***************************************************************************)
\* C22: the progress sink is purely observational: whatever it does with
\* start, success and fail, the run issues the remote call of the wrapped
\* fetch and ends in the result the wrapped fetch made of the response.
C22_SinkIsObservational ==
    (subject.op = "withProgress" /\ pStage # "idle")
    => /\ Cardinality(issuedAt(pTrace)) = 1
       /\ verdict # <<>>
          => \E i \in settledAt(pTrace) :
                verdict = <<fulfilled(wrappedResult(pTrace[i]))>>

(***************************************************************************)
(* Properties of the validation                                            *)
(***************************************************************************)
\* No groupRoles entry of the project has a group whose displayName is the
\* group asked for.
groupAbsent ==
    \A i \in DOMAIN subject.project.groupRoles :
        \A j \in DOMAIN subject.project.groupRoles[i].groups :
            subject.project.groupRoles[i].groups[j].displayName # subject.group

\* C10: for every project and expected group G bound to no role of it,
\* validatedGroup fails with exactly one reason, "Project does not have
\* required group [G].", though the expected roles of G are all missing.
C10_AbsentGroupOneReason ==
    (subject.op = "validatedGroup" /\ verdict # <<>> /\ groupAbsent)
    => verdict[1] = left(<<"Project does not have required group [" \o subject.group \o "].">>)

\* The group is bound to no role of a project that has roles, and roles are
\* expected of it.
C10_Witness ==
    /\ subject.op = "validatedGroup" /\ verdict # <<>> /\ groupAbsent
    /\ Len(subject.project.groupRoles) = 2
    /\ Len(rolesForGroup(subject.group)) # 0

\* validatedGroup has returned for a group that is bound to a role.
groupValidatedBound ==
    subject.op = "validatedGroup" /\ verdict # <<>> /\ ~groupAbsent

\* The names of the roles the group is bound to, and of those expected of it.
boundRoleSet ==
    {subject.project.groupRoles[i].role :
        i \in {i \in DOMAIN subject.project.groupRoles :
                  \E j \in DOMAIN subject.project.groupRoles[i].groups :
                      subject.project.groupRoles[i].groups[j].displayName = subject.group}}
expectedRoleSet ==
    {rolesForGroup(subject.group)[k] : k \in DOMAIN rolesForGroup(subject.group)}
extraRoleSet == boundRoleSet \ expectedRoleSet
missingRoleSet == expectedRoleSet \ boundRoleSet

hasReason(validated, prefix) ==
    isLeft(validated) /\ \E k \in DOMAIN validated.left : startsWith(validated.left[k], prefix)

\* The outcome has the reason "label [names]", names being exactly those of S.
listsExactly(validated, label, S) ==
    /\ isLeft(validated)
    /\ \E names \in [1..Cardinality(S) -> S] :
          /\ {names[k] : k \in DOMAIN names} = S
          /\ \E k \in DOMAIN validated.left :
                validated.left[k] = label \o " [" \o join(names, ", ") \o "]"

\* C11: when the group is bound to a role, an expected role is not bound to
\* it and a role bound to it is not expected, the one outcome is a failure
\* that has both a "Missing roles [...]" and an "Extra roles [...]" reason.
C11_MissingAndExtraTogether ==
    (groupValidatedBound /\ missingRoleSet # {} /\ extraRoleSet # {})
    => /\ hasReason(verdict[1], "Missing roles [")
       /\ hasReason(verdict[1], "Extra roles [")

\* The group is bound to one role, which is not the one expected of it.
C11_Witness ==
    /\ groupValidatedBound /\ missingRoleSet # {} /\ extraRoleSet # {}
    /\ Len(verdict[1].left) = 2

\* C12: when the group is bound, the outcome is success if the roles it is
\* bound to are those of rolesForGroup; it has an "Extra roles [...]" reason
\* listing exactly the bound roles that are not expected whenever there is
\* one, and a "Missing roles [...]" reason listing exactly the expected roles
\* that are not bound whenever there is one.
C12_RoleSetComparison ==
    groupValidatedBound
    => /\ boundRoleSet = expectedRoleSet => verdict[1] = right(subject.group)
       /\ extraRoleSet # {} => listsExactly(verdict[1], "Extra roles", extraRoleSet)
       /\ missingRoleSet # {} => listsExactly(verdict[1], "Missing roles", missingRoleSet)

\* The group is bound to the role expected of it and to another one.
C12_Witness ==
    /\ groupValidatedBound
    /\ Cardinality(boundRoleSet) = 2 /\ Cardinality(extraRoleSet) = 1
    /\ missingRoleSet = {}

\* C13: a board with no filter fails with the one reason "Project board does
\* not have a filter."; a board whose filter has no share permission of the
\* subject project's id fails with the one reason "Filter is not shared with
\* project."; a board whose filter has such a share permission succeeds with
\* that filter.
C13_FilterValidation ==
    (subject.op = "validatedFilter" /\ verdict # <<>>)
    => verdict[1]
       = IF subject.board.filter = <<>>
         THEN left(<<"Project board does not have a filter.">>)
         ELSE IF \E k \in DOMAIN subject.board.filter[1].sharePermissions :
                    subject.board.filter[1].sharePermissions[k].project.id
                    = subject.project.id
         THEN right(subject.board.filter[1])
         ELSE left(<<"Filter is not shared with project.">>)

\* The filter is shared with another project first and with the subject
\* project second.
C13_Witness ==
    /\ subject.op = "validatedFilter" /\ verdict # <<>>
    /\ subject.board.filter # <<>>
    /\ Len(subject.board.filter[1].sharePermissions) = 2
    /\ subject.board.filter[1].sharePermissions[1].project.id # subject.project.id
    /\ isRight(verdict[1]) /\ verdict[1].right.jql = "project = PK"

\* C20: for every client code, projectGroups returns exactly three entries,
\* developers, business, administrators in that order, each the lower-cased
\* client code, "-" and the suffix.
C20_ThreeLowerCasedGroups ==
    (subject.op = "projectGroups" /\ verdict # <<>>)
    => verdict[1] = <<subject.lowered \o "-developers", subject.lowered \o "-business",
                      subject.lowered \o "-administrators">>

\* The client code has an upper-case letter.
C20_Witness ==
    /\ subject.op = "projectGroups" /\ verdict # <<>>
    /\ subject.clientCode # subject.lowered /\ Len(subject.clientCode) = 2

\* The three suffixes the group ends with, by comparing its last characters.
suffixesOf(group) ==
    {suffix \in {"-developers", "-business", "-administrators"} :
        /\ Len(group) >= Len(suffix)
        /\ \A k \in 1..Len(suffix) :
              SubSeq(group, Len(group) - Len(suffix) + k, Len(group) - Len(suffix) + k)
                 = SubSeq(suffix, k, k)}

\* C21: rolesForGroup(G) is "Team Member" alone if G ends with "-developers",
\* "Business Owner" alone if with "-business", "Administrators" alone if
\* with "-administrators", and empty otherwise; no G ends with two of the
\* suffixes; every group projectGroups returns has exactly one expected role.
C21_ExpectedRolesBySuffix ==
    (subject.op = "rolesForGroup" /\ verdict # <<>>)
    => /\ suffixesOf(subject.group) = (IF subject.suffix = "" THEN {} ELSE {subject.suffix})
       /\ verdict[1] = (CASE subject.suffix = "-developers" -> <<"Team Member">>
                          [] subject.suffix = "-business" -> <<"Business Owner">>
                          [] subject.suffix = "-administrators" -> <<"Administrators">>
                          [] OTHER -> <<>>)
       /\ subject.expected => Len(verdict[1]) = 1

\* A group that ends with a suffix's word but not with its hyphen has no
\* expected role.
C21_Witness ==
    /\ subject.op = "rolesForGroup" /\ verdict = <<<<>>>>
    /\ subject.group = "acmedevelopers"

====
